---- MODULE Spec2Model ----
(***************************************************************************)
(* A model of the valuation engine of WACC-step-by-step:                   *)
(*   CostofDebt.py   CostOfDebtCalculator                                  *)
(*   CostofEquity.py BetaCalculator                                        *)
(* Python floats are modelled as exact rationals <<n, d>> (d > 0, lowest   *)
(* terms); Python strings that the code inspects character by character    *)
(* (strip, upper, lower, substring test, float()) are sequences of         *)
(* one-character strings; an attribute that may be None is a sequence of   *)
(* length 0 (None) or 1 (the value).  A dict is the sequence of its        *)
(* <<key, value>> items in insertion order.                                *)
(***************************************************************************)
EXTENDS Integers, Sequences, FiniteSets, TLC

(***************************************************************************)
(* Bounds of the model.                                                    *)
(***************************************************************************)
\* the longest generated yield/ERP workbook, in data rows
MaxRows == 2

(***************************************************************************)
(* Rationals.                                                              *)
(***************************************************************************)
Abs(x) == IF x < 0 THEN -x ELSE x

RECURSIVE GCD(_, _)
GCD(a, b) == IF b = 0 THEN a ELSE GCD(b, a % b)

\* the rational n/d in lowest terms with a positive denominator (d # 0)
Rat(n, d) ==
    LET g == GCD(Abs(n), Abs(d))
        s == IF d < 0 THEN -1 ELSE 1
    IN  <<s * (n \div g), s * (d \div g)>>

RInt(n) == <<n, 1>>
RMul(a, b) == Rat(a[1] * b[1], a[2] * b[2])
RDiv(a, b) == Rat(a[1] * b[2], a[2] * b[1])
RAdd(a, b) == Rat(a[1] * b[2] + b[1] * a[2], a[2] * b[2])
RSub(a, b) == Rat(a[1] * b[2] - b[1] * a[2], a[2] * b[2])
RLeq(a, b) == a[1] * b[2] <= b[1] * a[2]
RLt(a, b) == a[1] * b[2] < b[1] * a[2]

(***************************************************************************)
(* Optional values: None is <<>>, a set attribute is <<value>>.            *)
(***************************************************************************)
None == <<>>
Some(v) == <<v>>
IsNone(o) == Len(o) = 0
Val(o) == o[1]

(***************************************************************************)
(* Text: str.strip, str.upper, str.lower, the substring test and float().  *)
(***************************************************************************)
LowerAlpha ==
    <<"a","b","c","d","e","f","g","h","i","j","k","l","m",
      "n","o","p","q","r","s","t","u","v","w","x","y","z">>
UpperAlpha ==
    <<"A","B","C","D","E","F","G","H","I","J","K","L","M",
      "N","O","P","Q","R","S","T","U","V","W","X","Y","Z">>

InSeq(c, s) == \E i \in 1..Len(s) : s[i] = c
\* the first position of c in s, 0 when s does not hold c
RECURSIVE Find(_, _, _)
Find(c, s, i) == IF i > Len(s) THEN 0 ELSE IF s[i] = c THEN i ELSE Find(c, s, i + 1)
IndexOf(c, s) == Find(c, s, 1)

UpperChar(c) == LET i == IndexOf(c, LowerAlpha) IN IF i > 0 THEN UpperAlpha[i] ELSE c
LowerChar(c) == LET i == IndexOf(c, UpperAlpha) IN IF i > 0 THEN LowerAlpha[i] ELSE c
Upper(s) == [i \in 1..Len(s) |-> UpperChar(s[i])]
Lower(s) == [i \in 1..Len(s) |-> LowerChar(s[i])]

RECURSIVE LStrip(_)
LStrip(s) == IF Len(s) > 0 /\ s[1] = " " THEN LStrip(Tail(s)) ELSE s
RECURSIVE RStrip(_)
RStrip(s) ==
    IF Len(s) > 0 /\ s[Len(s)] = " " THEN RStrip(SubSeq(s, 1, Len(s) - 1)) ELSE s
Strip(s) == RStrip(LStrip(s))

\* Python's `kw in text`
Contains(text, kw) ==
    \E i \in 0..(Len(text) - Len(kw)) : SubSeq(text, i + 1, i + Len(kw)) = kw

\* the value of a decimal digit, -1 for any other character
DigitVal(c) ==
    CASE c = "0" -> 0 [] c = "1" -> 1 [] c = "2" -> 2 [] c = "3" -> 3 [] c = "4" -> 4
      [] c = "5" -> 5 [] c = "6" -> 6 [] c = "7" -> 7 [] c = "8" -> 8 [] c = "9" -> 9
      [] OTHER -> -1

\* digits [. digits] from position i on: the digits read so far are `acc`,
\* `scale` is 10 ^ (digits after the point), `nd` counts the digits
RECURSIVE ScanDecimal(_, _, _, _, _, _)
ScanDecimal(u, i, acc, scale, dot, nd) ==
    IF i > Len(u) THEN [ok |-> nd > 0, n |-> acc, d |-> scale]
    ELSE IF u[i] = "."
    THEN IF dot THEN [ok |-> FALSE, n |-> 0, d |-> 1]
         ELSE ScanDecimal(u, i + 1, acc, scale, TRUE, nd)
    ELSE IF DigitVal(u[i]) < 0 THEN [ok |-> FALSE, n |-> 0, d |-> 1]
    ELSE ScanDecimal(u, i + 1, 10 * acc + DigitVal(u[i]),
                     IF dot THEN 10 * scale ELSE scale, dot, nd + 1)

\* float(text) for the decimal notation [sign] digits [. digits]; anything
\* else raises ValueError (ok = FALSE).  float() ignores surrounding blanks.
ParseFloat(text) ==
    LET t == Strip(text)
        signed == Len(t) > 0 /\ (t[1] = "-" \/ t[1] = "+")
        r == ScanDecimal(t, IF signed THEN 2 ELSE 1, 0, 1, FALSE, 0)
    IN  IF r.ok
        THEN [ok |-> TRUE,
              v |-> Rat(IF signed /\ t[1] = "-" THEN -r.n ELSE r.n, r.d)]
        ELSE [ok |-> FALSE, v |-> <<0, 1>>]

(***************************************************************************)
(* Spreadsheet cells as pandas hands them over: a number, a string or NaN. *)
(***************************************************************************)
NaN == [t |-> "nan", v |-> <<0, 1>>, s |-> <<>>]
Num(n, d) == [t |-> "num", v |-> Rat(n, d), s |-> <<>>]
Txt(s) == [t |-> "str", v |-> <<0, 1>>, s |-> s]

\* pd.notna(cell)
NotNa(cell) == cell.t # "nan"
\* str(cell) of a string cell
CellStr(cell) == cell.s
\* float(cell): a number converts, a string is parsed
CellFloat(cell) == IF cell.t = "num" THEN [ok |-> TRUE, v |-> cell.v] ELSE ParseFloat(cell.s)

(***************************************************************************)
(* dict operations on the item sequence.                                   *)
(***************************************************************************)
HasKey(d, k) == \E i \in 1..Len(d) : d[i][1] = k
Get(d, k) == d[CHOOSE i \in 1..Len(d) : d[i][1] = k][2]
\* an existing key keeps its value
Put_KeepFirst(d, k, v) == IF HasKey(d, k) THEN d ELSE Append(d, <<k, v>>)

\* d[k] = v
Put(d, k, v) ==
    IF HasKey(d, k)
    THEN [i \in 1..Len(d) |-> IF d[i][1] = k THEN <<k, v>> ELSE d[i]]
    ELSE Append(d, <<k, v>>)
Keys(d) == {d[i][1] : i \in 1..Len(d)}

(***************************************************************************)
(* State.  Each calculator object is a record of its attributes; the       *)
(* workbooks on disk are the environment.                                  *)
(***************************************************************************)
VARIABLES
    debt,           \* the CostOfDebtCalculator instance (self)
    beta,           \* the BetaCalculator instance (self)
    table_file,     \* the workbook at the path given to a yield/ERP loader
    ratings_file,   \* the workbook at the path given to the ratings loader
    op,             \* the method that ran last
    ret,            \* what it returned, or the exception it raised
    out,            \* the outcome line it printed last
    stdin,          \* the lines typed at the prompts of the last prompting call
    wacc,           \* the WACCCalculator instance (self)
    arg             \* the argument the last call was given, None without one

vars == <<debt, beta, wacc, table_file, ratings_file, op, ret, out, stdin, arg>>

\* return values and raised exceptions
Ret(k) == [k |-> k, v |-> <<0, 1>>]
RetTrue == Ret("True")
RetFalse == Ret("False")
Raise(e) == Ret(e)
\* `return value`
RetValue(v) == [k |-> "value", v |-> v]

(***************************************************************************)
(* Workbooks.  A yield/ERP workbook is read with its first row as header:  *)
(* cols are the column labels, rows the data rows (one cell per column).   *)
(***************************************************************************)
MissingFile == [exists |-> FALSE, cols |-> <<>>, rows |-> <<>>]
Sheet(cols, rows) == [exists |-> TRUE, cols |-> cols, rows |-> rows]

\* <<country cell, value cell>> of the generated data rows
SampleRows ==
    { <<Txt(<<"U","S","A">>), Num(9, 2)>>,
      <<Txt(<<" ","u","s","a"," ">>), Num(3, 100)>>,
      <<Txt(<<"I","t","a","l","y">>), Num(1, 1)>>,
      <<Txt(<<"I","t","a","l","y">>), Txt(<<"n","/","a">>)>>,
      <<NaN, Num(2, 1)>>,
      <<Txt(<<"I","t","a","l","y">>), NaN>>,
      <<Txt(<<"I","t","a","l","y">>), Num(150, 1)>>,
      <<Txt(<<"U","S","A">>), Num(-1, 2)>>,
      <<Txt(<<"U","s">>), Txt(<<"3",".","5">>)>> }

RowSeqs == UNION {[1..n -> SampleRows] : n \in 0..MaxRows}

\* a workbook whose yield column and ERP column hold the same cells
GenSheets ==
    { Sheet(<<"Country", "Yield", "ERP">>,
            [i \in 1..Len(rs) |-> <<rs[i][1], rs[i][2], rs[i][2]>>]) : rs \in RowSeqs }

\* workbooks with other headers
TwoYieldSheet ==
    Sheet(<<"Country", "Yield", "10Y Yield">>,
          << <<Txt(<<"U","S","A">>), Num(4, 1), Num(5, 1)>> >>)
AllYieldSheet ==
    Sheet(<<"10 Year Yield", "Yield", "10Y Yield", "Yield 10y", "Country">>,
          << <<Num(1, 1), Num(2, 1), Num(3, 1), Num(4, 1), Txt(<<"U","K">>)>> >>)
TwoErpSheet ==
    Sheet(<<"Country", "ERP", "Equity Risk Premium">>,
          << <<Txt(<<"U","S","A">>), Num(6, 100), Num(7, 100)>> >>)
AllErpSheet ==
    Sheet(<<"ERP", "Equity Risk Premium", "Total Equity Risk Premium", "Country">>,
          << <<Num(1, 100), Num(2, 100), Num(3, 100), Txt(<<"U","K">>)>> >>)
NoCountrySheet ==
    Sheet(<<"Nation", "Yield", "ERP">>,
          << <<Txt(<<"U","S","A">>), Num(4, 1), Num(4, 1)>> >>)
NoValueSheet ==
    Sheet(<<"Country", "Rate">>, << <<Txt(<<"U","S","A">>), Num(4, 1)>> >>)

OtherSheets ==
    {MissingFile, TwoYieldSheet, AllYieldSheet, TwoErpSheet, AllErpSheet,
     NoCountrySheet, NoValueSheet}

(***************************************************************************)
(* Construction.                                                           *)
(***************************************************************************)
\* CostOfDebtCalculator.__init__
CostOfDebtCalculator_init ==
    [ company_info |-> None, market_cap |-> None, is_financial |-> None,
      ebit |-> None, interest_expense |-> None, interest_coverage_ratio |-> None,
      company_type |-> None, rating |-> None, spread |-> None,
      risk_free_rate |-> None, tax_rate |-> None, cost_of_debt |-> None,
      synthetic_ratings_data |-> None, bond_yield_data |-> None ]

\* BetaCalculator.__init__
BetaCalculator_init ==
    [ stock_data |-> None, index_data |-> None,
      stock_returns |-> None, index_returns |-> None,
      beta |-> None, alpha |-> None, r_squared |-> None, correlation |-> None,
      p_value |-> None, std_error |-> None, t_statistic |-> None,
      bond_data |-> None, current_risk_free_rate |-> None,
      avg_risk_free_rate |-> None, bond_symbol |-> None,
      bond_yield_data |-> None, erp_data |-> None,
      detected_country |-> None, equity_risk_premium |-> None ]

\* WACCCalculator.__init__
WACCCalculator_init ==
    [ cost_of_equity |-> None, cost_of_debt |-> None, valuation_method |-> None,
      ticker |-> None, company_info |-> None,
      market_value_equity |-> None, market_value_debt |-> None,
      book_value_equity |-> None, book_value_debt |-> None,
      equity_value |-> None, debt_value |-> None, total_value |-> None,
      weight_equity |-> None, weight_debt |-> None, wacc |-> None,
      debt_maturity |-> None, interest_expense |-> None ]

(***************************************************************************)
(* Loading a yield / ERP workbook.                                         *)
(***************************************************************************)
Min(S) == CHOOSE x \in S : \A y \in S : x <= y

\* the last accepted header present instead of the first
FirstPresent_Last(possible, cols) ==
    LET hits == {i \in 1..Len(possible) : InSeq(possible[i], cols)}
    IN  IF hits = {} THEN None
        ELSE Some(possible[CHOOSE i \in hits : \A j \in hits : j <= i])

\* for col in possible: if col in df.columns: column = col; break
FirstPresent(possible, cols) ==
    LET hits == {i \in 1..Len(possible) : InSeq(possible[i], cols)}
    IN  IF hits = {} THEN None ELSE Some(possible[Min(hits)])

\* row[label]
Cell(cols, row, label) == row[IndexOf(label, cols)]

CD_possible_yield_columns == <<"Yield 10y", "10Y Yield", "Yield", "10 Year Yield">>

\* `>= 1` instead of `> 1`
CD_NormalizeYield_FromOne(v) == IF RLeq(RInt(1), v) THEN RDiv(v, RInt(100)) ELSE v

\* if yield_value > 1: yield_value = yield_value / 100
CD_NormalizeYield(v) == IF RLt(RInt(1), v) THEN RDiv(v, RInt(100)) ELSE v

\* the body of `for _, row in df.iterrows()` of CostOfDebtCalculator
CD_BondRow(d, cols, row, yield_column) ==
    IF NotNa(Cell(cols, row, "Country")) /\ NotNa(Cell(cols, row, yield_column))
    THEN LET country == Strip(CellStr(Cell(cols, row, "Country")))
             yield_value == CellFloat(Cell(cols, row, yield_column))
         IN  IF yield_value.ok
             THEN Put(d, Upper(country), CD_NormalizeYield(yield_value.v))
             ELSE d
    ELSE d

RECURSIVE CD_BondRows(_, _, _, _)
CD_BondRows(d, cols, rows, yield_column) ==
    IF Len(rows) = 0 THEN d
    ELSE CD_BondRows(CD_BondRow(d, cols, Head(rows), yield_column),
                     cols, Tail(rows), yield_column)

CostOfDebtCalculator_load_bond_yield_data ==
    /\ op' = "CostOfDebtCalculator.load_bond_yield_data"
    /\ IF ~table_file.exists
       THEN /\ ret' = RetFalse /\ out' = "bond file not found"
            /\ UNCHANGED debt
       ELSE IF ~InSeq("Country", table_file.cols)
       THEN /\ ret' = RetFalse /\ out' = "no Country column"
            /\ UNCHANGED debt
       ELSE LET yield_column == FirstPresent(CD_possible_yield_columns, table_file.cols)
            IN  IF IsNone(yield_column)
                THEN /\ ret' = RetFalse /\ out' = "no yield column"
                     /\ UNCHANGED debt
                ELSE /\ debt' = [debt EXCEPT !.bond_yield_data =
                            Some(CD_BondRows(<<>>, table_file.cols, table_file.rows,
                                             Val(yield_column)))]
                     /\ ret' = RetTrue /\ out' = "bond yield data loaded"
    /\ arg' = None
    /\ UNCHANGED <<beta, table_file, ratings_file, stdin, wacc>>

BC_possible_yield_columns == <<"Yield 10y", "10Y Yield", "Yield", "10 Year Yield">>
BC_possible_erp_columns == <<"Total Equity Risk Premium", "Equity Risk Premium", "ERP">>

\* if yield_value > 1: yield_value = yield_value / 100
BC_NormalizeYield(v) == IF RLt(RInt(1), v) THEN RDiv(v, RInt(100)) ELSE v

\* the body of `for _, row in df.iterrows()` of BetaCalculator.load_bond_yield_data
BC_BondRow(d, cols, row, yield_column) ==
    IF NotNa(Cell(cols, row, "Country")) /\ NotNa(Cell(cols, row, yield_column))
    THEN LET country == Strip(CellStr(Cell(cols, row, "Country")))
             yield_value == CellFloat(Cell(cols, row, yield_column))
         IN  IF yield_value.ok
             THEN Put(d, Upper(country), BC_NormalizeYield(yield_value.v))
             ELSE d
    ELSE d

RECURSIVE BC_BondRows(_, _, _, _)
BC_BondRows(d, cols, rows, yield_column) ==
    IF Len(rows) = 0 THEN d
    ELSE BC_BondRows(BC_BondRow(d, cols, Head(rows), yield_column),
                     cols, Tail(rows), yield_column)

BetaCalculator_load_bond_yield_data ==
    /\ op' = "BetaCalculator.load_bond_yield_data"
    /\ IF ~table_file.exists
       THEN /\ ret' = RetFalse /\ out' = "bond file not found"
            /\ UNCHANGED beta
       ELSE IF ~InSeq("Country", table_file.cols)
       THEN /\ ret' = RetFalse /\ out' = "no Country column"
            /\ UNCHANGED beta
       ELSE LET yield_column == FirstPresent(BC_possible_yield_columns, table_file.cols)
            IN  IF IsNone(yield_column)
                THEN /\ ret' = RetFalse /\ out' = "no yield column"
                     /\ UNCHANGED beta
                ELSE /\ beta' = [beta EXCEPT !.bond_yield_data =
                            Some(BC_BondRows(<<>>, table_file.cols, table_file.rows,
                                             Val(yield_column)))]
                     /\ ret' = RetTrue /\ out' = "bond yield data loaded"
    /\ arg' = None
    /\ UNCHANGED <<debt, table_file, ratings_file, stdin, wacc>>

\* the body of `for _, row in df.iterrows()` of BetaCalculator.load_erp_data
BC_ErpRow(d, cols, row, erp_column) ==
    IF NotNa(Cell(cols, row, "Country")) /\ NotNa(Cell(cols, row, erp_column))
    THEN LET country == Strip(CellStr(Cell(cols, row, "Country")))
             erp == CellFloat(Cell(cols, row, erp_column))
         IN  IF erp.ok THEN Put(d, Upper(country), erp.v) ELSE d
    ELSE d

RECURSIVE BC_ErpRows(_, _, _, _)
BC_ErpRows(d, cols, rows, erp_column) ==
    IF Len(rows) = 0 THEN d
    ELSE BC_ErpRows(BC_ErpRow(d, cols, Head(rows), erp_column),
                    cols, Tail(rows), erp_column)

BetaCalculator_load_erp_data ==
    /\ op' = "BetaCalculator.load_erp_data"
    /\ IF ~table_file.exists
       THEN /\ ret' = RetFalse /\ out' = "ERP file not found"
            /\ UNCHANGED beta
       ELSE IF ~InSeq("Country", table_file.cols)
       THEN /\ ret' = RetFalse /\ out' = "no Country column"
            /\ UNCHANGED beta
       ELSE LET erp_column == FirstPresent(BC_possible_erp_columns, table_file.cols)
            IN  IF IsNone(erp_column)
                THEN /\ ret' = RetFalse /\ out' = "no ERP column"
                     /\ UNCHANGED beta
                ELSE /\ beta' = [beta EXCEPT !.erp_data =
                            Some(BC_ErpRows(<<>>, table_file.cols, table_file.rows,
                                            Val(erp_column)))]
                     /\ ret' = RetTrue /\ out' = "ERP data loaded"
    /\ arg' = None
    /\ UNCHANGED <<debt, table_file, ratings_file, stdin, wacc>>

\* the user replaces the workbook on disk
ReplaceTableFile ==
    /\ \E f \in OtherSheets : table_file' = f
    /\ table_file' # table_file
    /\ op' = "ReplaceTableFile" /\ ret' = Ret("None") /\ out' = ""
    /\ arg' = None
    /\ UNCHANGED <<debt, beta, ratings_file, stdin, wacc>>

(***************************************************************************)
(* CostOfDebtCalculator.load_synthetic_ratings_data.  The ratings workbook *)
(* is read without a header row: rows are sequences of `width` cells and   *)
(* column c of the code is cell c + 1.  The three blocks start at columns  *)
(* 0, 5 and 10; the first three rows are skipped.                          *)
(***************************************************************************)
RatingsSheet(width, rows) == [exists |-> TRUE, width |-> width, rows |-> rows]
MissingRatingsFile == [exists |-> FALSE, width |-> 0, rows |-> <<>>]

EmptyRatings == [large_cap |-> <<>>, small_cap |-> <<>>, financial |-> <<>>]

Band(lo, hi, label, spread) ==
    [min_ratio |-> lo, max_ratio |-> hi, rating |-> label, spread |-> spread]

\* one block of one row: "append" with the band, "skip", or "KeyError" when
\* the row has no such column.  The four pd.notna tests short-circuit, so a
\* NaN cell ends the test before a later, missing column is touched.
RECURSIVE SR_NotNaScan(_, _, _, _)
SR_NotNaScan(row, width, c, n) ==
    IF n = 0 THEN "present"
    ELSE IF c >= width THEN "KeyError"
    ELSE IF ~NotNa(row[c + 1]) THEN "skip"
    ELSE SR_NotNaScan(row, width, c + 1, n - 1)

SR_Block(row, width, c) ==
    LET scan == SR_NotNaScan(row, width, c, 4)
    IN  IF scan # "present" THEN [k |-> scan, band |-> Band(<<0, 1>>, <<0, 1>>, <<>>, <<0, 1>>)]
        ELSE IF row[c + 1].t = "num" /\ row[c + 2].t = "num" /\ CellFloat(row[c + 4]).ok
        THEN [k |-> "append",
              band |-> Band(row[c + 1].v, row[c + 2].v, CellStr(row[c + 3]),
                            CellFloat(row[c + 4]).v)]
        ELSE [k |-> "skip", band |-> Band(<<0, 1>>, <<0, 1>>, <<>>, <<0, 1>>)]

\* self.synthetic_ratings_data[key].append(band), when the block has a band
SR_Append(data, key, b) ==
    IF b.k = "append" THEN [data EXCEPT ![key] = Append(@, b.band)] ELSE data

\* the three blocks of one row, in order; a KeyError ends the row (and the load)
SR_Blocks(data, b1, b2, b3) ==
    IF b1.k = "KeyError" THEN [data |-> data, raised |-> TRUE]
    ELSE IF b2.k = "KeyError"
    THEN [data |-> SR_Append(data, "large_cap", b1), raised |-> TRUE]
    ELSE IF b3.k = "KeyError"
    THEN [data |-> SR_Append(SR_Append(data, "large_cap", b1), "small_cap", b2),
          raised |-> TRUE]
    ELSE [data |-> SR_Append(SR_Append(SR_Append(data, "large_cap", b1),
                                       "small_cap", b2), "financial", b3),
          raised |-> FALSE]

SR_Row(data, row, width) ==
    SR_Blocks(data, SR_Block(row, width, 0), SR_Block(row, width, 5),
              SR_Block(row, width, 10))

\* for i in range(3, len(df))
RECURSIVE SR_Rows(_, _, _, _)
SR_After(r, rows, width, i) ==
    IF r.raised THEN r ELSE SR_Rows(r.data, rows, width, i + 1)

SR_Rows(data, rows, width, i) ==
    IF i > Len(rows) THEN [data |-> data, raised |-> FALSE]
    ELSE SR_After(SR_Row(data, rows[i], width), rows, width, i)

\* a test that fails the load as soon as one table is empty
NoRatings_Any(data) ==
    Len(data.large_cap) = 0 \/ Len(data.small_cap) = 0 \/ Len(data.financial) = 0

\* not any(self.synthetic_ratings_data.values())
NoRatings(data) ==
    Len(data.large_cap) = 0 /\ Len(data.small_cap) = 0 /\ Len(data.financial) = 0

CostOfDebtCalculator_load_synthetic_ratings_data ==
    /\ op' = "CostOfDebtCalculator.load_synthetic_ratings_data"
    /\ IF ~ratings_file.exists
       THEN /\ ret' = RetFalse /\ out' = "ratings file not found"
            /\ UNCHANGED debt
       ELSE LET r == SR_Rows(EmptyRatings, ratings_file.rows, ratings_file.width, 4)
            IN  /\ debt' = [debt EXCEPT !.synthetic_ratings_data = Some(r.data)]
                /\ IF r.raised
                   THEN ret' = RetFalse /\ out' = "error loading synthetic ratings"
                   ELSE IF NoRatings(r.data)
                   THEN ret' = RetFalse /\ out' = "no valid rating data"
                   ELSE ret' = RetTrue /\ out' = "ratings data loaded"
    /\ arg' = None
    /\ UNCHANGED <<beta, table_file, ratings_file, stdin, wacc>>

(***************************************************************************)
(* CostOfDebtCalculator.get_company_info.  `info` is what the market-data  *)
(* provider returns for the ticker.  Market capitalisation is counted in   *)
(* millions of dollars.                                                    *)
(***************************************************************************)
\* 5_000_000_000 dollars, in millions
LargeCapThreshold == 5000

financial_keywords ==
    << <<"f","i","n","a","n","c","i","a","l">>,
       <<"b","a","n","k">>,
       <<"i","n","s","u","r","a","n","c","e">>,
       <<"c","r","e","d","i","t">>,
       <<"m","o","r","t","g","a","g","e">>,
       <<"i","n","v","e","s","t","m","e","n","t">>,
       <<"s","e","c","u","r","i","t","i","e","s">>,
       <<"a","s","s","e","t"," ","m","a","n","a","g","e","m","e","n","t">> >>

\* stock.info: empty, or a dict whose keys may be absent (None here)
Info(cap, sector, industry) ==
    [empty |-> FALSE, marketCap |-> cap, sector |-> sector, industry |-> industry]
EmptyInfo == [empty |-> TRUE, marketCap |-> None, sector |-> None, industry |-> None]

\* info.get(key, '')
GetText(o) == IF IsNone(o) THEN <<>> ELSE Val(o)

\* any(keyword in sector ...) or any(keyword in industry ...)
IsFinancial(sector, industry) ==
    \/ \E i \in 1..Len(financial_keywords) : Contains(sector, financial_keywords[i])
    \/ \E i \in 1..Len(financial_keywords) : Contains(industry, financial_keywords[i])

\* a threshold that counts the boundary as large
IsLargeCap_AtLeast(market_cap) == market_cap >= LargeCapThreshold

\* `elif self.market_cap > 5_000_000_000`
IsLargeCap(market_cap) == market_cap > LargeCapThreshold

CompanyType(is_financial, market_cap) ==
    IF is_financial THEN "financial"
    ELSE IF IsLargeCap(market_cap) THEN "large_cap"
    ELSE "small_cap"

get_company_info(infos) ==
    /\ op' = "CostOfDebtCalculator.get_company_info"
    /\ \E info \in infos :
          IF info.empty
          THEN /\ debt' = [debt EXCEPT !.company_info = Some(info)]
               /\ ret' = RetFalse /\ out' = "no data found for ticker"
          ELSE IF IsNone(info.marketCap)
          THEN /\ debt' = [debt EXCEPT !.company_info = Some(info), !.market_cap = None]
               /\ ret' = RetFalse /\ out' = "market cap not available"
          ELSE LET sector == Lower(GetText(info.sector))
                   industry == Lower(GetText(info.industry))
                   fin == IsFinancial(sector, industry)
               IN  /\ debt' = [debt EXCEPT
                          !.company_info = Some(info),
                          !.market_cap = info.marketCap,
                          !.is_financial = Some(fin),
                          !.company_type = Some(CompanyType(fin, Val(info.marketCap)))]
                   /\ ret' = RetTrue /\ out' = "company information retrieved"
    /\ arg' = None
    /\ UNCHANGED <<beta, table_file, ratings_file, stdin, wacc>>

(***************************************************************************)
(* CostOfDebtCalculator.get_financial_inputs.  `stdin` holds the lines the *)
(* user typed at the two prompts of the call; the call returns once both   *)
(* prompts have been answered with a number.                               *)
(***************************************************************************)
Million == 1000000

\* one `while True` prompt loop: blank lines and lines float() rejects are
\* asked again; returns the first number and the lines left
RECURSIVE ReadFloat(_)
ReadFloat(lines) ==
    IF Len(lines) = 0 THEN [ok |-> FALSE, v |-> <<0, 1>>, rest |-> <<>>]
    ELSE LET text == Strip(Head(lines))
             number == ParseFloat(text)
         IN  IF Len(text) = 0 \/ ~number.ok
             THEN ReadFloat(Tail(lines))
             ELSE [ok |-> TRUE, v |-> number.v, rest |-> Tail(lines)]

\* `if interest_value <= 0`
NoInterest(interest_value) == RLeq(interest_value, RInt(0))

\* the sentinel coverage ratio 20.0
SentinelCoverage == 20

\* a sentinel used for an interest expense of exactly zero only
CoverageInputs_ZeroOnly(self, ebit, interest_value) ==
    IF interest_value[1] = 0
    THEN [self EXCEPT !.ebit = Some(ebit),
                      !.interest_expense = Some(RInt(0)),
                      !.interest_coverage_ratio = Some(RInt(SentinelCoverage))]
    ELSE [self EXCEPT !.ebit = Some(ebit),
                      !.interest_expense = Some(interest_value),
                      !.interest_coverage_ratio = Some(RDiv(ebit, interest_value))]

CoverageInputs(self, ebit, interest_value) ==
    IF NoInterest(interest_value)
    THEN [self EXCEPT !.ebit = Some(ebit),
                      !.interest_expense = Some(RInt(0)),
                      !.interest_coverage_ratio = Some(RInt(SentinelCoverage))]
    ELSE [self EXCEPT !.ebit = Some(ebit),
                      !.interest_expense = Some(interest_value),
                      !.interest_coverage_ratio = Some(RDiv(ebit, interest_value))]

get_financial_inputs(streams) ==
    /\ op' = "CostOfDebtCalculator.get_financial_inputs"
    /\ \E lines \in streams :
          LET e == ReadFloat(lines)
              i == ReadFloat(e.rest)
          IN  /\ e.ok /\ i.ok
              /\ stdin' = lines
              /\ debt' = CoverageInputs(debt, RMul(e.v, RInt(Million)),
                                        RMul(i.v, RInt(Million)))
              /\ ret' = RetTrue /\ out' = "interest coverage ratio set"
    /\ arg' = None
    /\ UNCHANGED <<beta, table_file, ratings_file, wacc>>

(***************************************************************************)
(* CostOfDebtCalculator.assign_synthetic_rating.                           *)
(***************************************************************************)
\* a band that is open at its upper end
InBand_Open(entry, ratio) == RLeq(entry.min_ratio, ratio) /\ RLt(ratio, entry.max_ratio)

\* `if min_ratio <= self.interest_coverage_ratio <= max_ratio`
InBand(entry, ratio) == RLeq(entry.min_ratio, ratio) /\ RLeq(ratio, entry.max_ratio)

\* the loop `for rating_entry in rating_table`: the index of the entry it
\* returns at, 0 when it runs to the end
FirstMatch(rating_table, ratio) ==
    LET hits == {i \in 1..Len(rating_table) : InBand(rating_table[i], ratio)}
    IN  IF hits = {} THEN 0 ELSE Min(hits)

\* a fallback that reports failure to its caller
Fallback_Flagged(self, rating_table) ==
    [self |-> [self EXCEPT !.rating = Some(rating_table[1].rating),
                           !.spread = Some(rating_table[1].spread)],
     ret |-> RetFalse]

\* `worst_rating = rating_table[0]` and what the fallback leaves and returns
Fallback(self, rating_table) ==
    [self |-> [self EXCEPT !.rating = Some(rating_table[1].rating),
                           !.spread = Some(rating_table[1].spread)],
     ret |-> RetTrue]

assign_synthetic_rating ==
    /\ op' = "CostOfDebtCalculator.assign_synthetic_rating"
    /\ IF IsNone(debt.synthetic_ratings_data)
       THEN /\ ret' = RetFalse /\ out' = "ratings data not loaded"
            /\ UNCHANGED debt
       ELSE IF IsNone(debt.company_type)
       THEN /\ ret' = Raise("KeyError") /\ out' = ""
            /\ UNCHANGED debt
       ELSE IF IsNone(debt.interest_coverage_ratio)
       THEN /\ ret' = Raise("TypeError") /\ out' = ""
            /\ UNCHANGED debt
       ELSE LET rating_table == Val(debt.synthetic_ratings_data)[Val(debt.company_type)]
                hit == FirstMatch(rating_table, Val(debt.interest_coverage_ratio))
            IN  IF hit > 0
                THEN /\ debt' = [debt EXCEPT !.rating = Some(rating_table[hit].rating),
                                             !.spread = Some(rating_table[hit].spread)]
                     /\ ret' = RetTrue /\ out' = "rating assignment"
                ELSE IF Len(rating_table) = 0
                THEN /\ ret' = Raise("IndexError") /\ out' = ""
                     /\ UNCHANGED debt
                ELSE /\ debt' = Fallback(debt, rating_table).self
                     /\ ret' = Fallback(debt, rating_table).ret
                     /\ out' = "assigned worst rating"
    /\ arg' = None
    /\ UNCHANGED <<beta, table_file, ratings_file, stdin, wacc>>

(***************************************************************************)
(* Company classification, run on every provider answer.                   *)
(***************************************************************************)
SectorTexts ==
    { <<Some(<<"T","e","c","h","n","o","l","o","g","y">>), Some(<<"S","o","f","t","w","a","r","e">>)>>,
      <<Some(<<"F","i","n","a","n","c","i","a","l"," ","S","e","r","v","i","c","e","s">>), Some(<<"B","a","n","k","s"," ","-"," ","R","e","g","i","o","n","a","l">>)>>,
      <<Some(<<"E","n","e","r","g","y">>), Some(<<"O","i","l"," ","&"," ","G","a","s">>)>>,
      <<None, Some(<<"I","N","S","U","R","A","N","C","E">>)>>,
      <<Some(<<"T","e","c","h","n","o","l","o","g","y">>), Some(<<"C","r","e","d","i","t"," ","S","e","r","v","i","c","e","s">>)>>,
      <<None, None>>,
      <<Some(<<"R","e","a","l"," ","E","s","t","a","t","e">>), Some(<<"A","s","s","e","t"," ","M","a","n","a","g","e","m","e","n","t">>)>>,
      <<Some(<<"R","i","v","e","r","b","a","n","k"," ","T","o","u","r","i","s","m">>), None>>,
      <<Some(<<"A","s","s","e","t","s">>), Some(<<"M","a","n","a","g","e","m","e","n","t">>)>>,
      <<Some(<<"U","t","i","l","i","t","i","e","s">>), Some(<<"M","o","r","t","g","a","g","e"," ","F","i","n","a","n","c","e">>)>> }

MarketCaps == {None, Some(0), Some(4999), Some(5000), Some(5001), Some(250000)}

AllInfos ==
    {EmptyInfo} \cup {Info(c, t[1], t[2]) : c \in MarketCaps, t \in SectorTexts}

InitCompany ==
    /\ debt = CostOfDebtCalculator_init
    /\ beta = BetaCalculator_init
    /\ table_file = MissingFile
    /\ ratings_file = MissingRatingsFile
    /\ op = "__init__"
    /\ ret = Ret("None")
    /\ out = ""
    /\ stdin = <<>>
    /\ wacc = WACCCalculator_init
    /\ arg = None

CostOfDebtCalculator_get_company_info == get_company_info(AllInfos)

NextCompany == CostOfDebtCalculator_get_company_info

SpecCompany == InitCompany /\ [][NextCompany]_vars

(***************************************************************************)
(* The coverage prompts, run on every short sequence of typed lines.       *)
(***************************************************************************)
\* the most lines typed during one call
MaxLines == 3

\* lines that are a number, and lines the prompt asks again for
NumberLines == {<<"1","5","0","0">>, <<" ","7","5"," ">>, <<"0">>, <<"-","5">>, <<"3","7",".","5">>}
OtherLines == {<<>>, <<"x">>}
OtherRuns(n) == [1..n -> OtherLines]

\* the user answers each prompt until a number is typed: some rejected
\* lines and the EBIT, some rejected lines and the interest expense
AllStreams ==
    UNION { { a \o <<x>> \o b \o <<y>> :
                a \in OtherRuns(k[1]), b \in OtherRuns(k[2]),
                x \in NumberLines, y \in NumberLines } :
            k \in {k \in (0..MaxLines) \X (0..MaxLines) : k[1] + k[2] + 2 <= MaxLines} }

CostOfDebtCalculator_get_financial_inputs == get_financial_inputs(AllStreams)

NextCoverage == CostOfDebtCalculator_get_financial_inputs

SpecCoverage == InitCompany /\ [][NextCoverage]_vars

(***************************************************************************)
(* Rating assignment: one calculator, driven through its four methods in   *)
(* any order on a few ratings workbooks.                                   *)
(***************************************************************************)
NoBlock == <<NaN, NaN, NaN, NaN>>
Block(lo, hi, label, spread) == <<lo, hi, Txt(label), spread>>
Row14(b1, b2, b3) == b1 \o <<NaN>> \o b2 \o <<NaN>> \o b3

HeaderRows ==
    << Row14(<<Txt(<<"L","a","r","g","e">>), NaN, NaN, NaN>>, <<Txt(<<"S","m","a","l","l">>), NaN, NaN, NaN>>,
             <<Txt(<<"F","i","n","a","n","c","i","a","l">>), NaN, NaN, NaN>>),
       Row14(<<Txt(<<">">>), Txt(<<"<","=">>), Txt(<<"R","a","t","i","n","g">>), Txt(<<"S","p","r","e","a","d">>)>>,
             <<Txt(<<">">>), Txt(<<"<","=">>), Txt(<<"R","a","t","i","n","g">>), Txt(<<"S","p","r","e","a","d">>)>>,
             <<Txt(<<">">>), Txt(<<"<","=">>), Txt(<<"R","a","t","i","n","g">>), Txt(<<"S","p","r","e","a","d">>)>>),
       Row14(Block(Num(-9, 1), Num(-1, 1), <<"Z">>, Num(1, 2)), NoBlock, NoBlock) >>

\* large caps: the bands (0, 1.5, D, 10%), (1.5, 3, B, 5%), (3, 999, A, 1%);
\* small caps: overlapping bands; financial firms: no band
ExampleBook ==
    RatingsSheet(14, HeaderRows \o
      << Row14(Block(Num(0, 1), Num(3, 2), <<"D">>, Num(1, 10)),
               Block(Num(0, 1), Num(2, 1), <<"C">>, Num(8, 100)), NoBlock),
         Row14(Block(Num(3, 2), Num(3, 1), <<"B">>, Num(5, 100)),
               Block(Num(1, 1), Num(4, 1), <<"B","B">>, Num(4, 100)), NoBlock),
         Row14(Block(Num(3, 1), Num(999, 1), <<"A">>, Num(1, 100)),
               Block(Num(4, 1), Num(999, 1), <<"A","A">>, Txt(<<"0",".","0","2">>)), NoBlock) >>)

\* large caps: bounds given as text; small caps: a missing spread and a
\* spread that is no number; financial firms: two bands
FinancialBook ==
    RatingsSheet(14, HeaderRows \o
      << Row14(<<Txt(<<">"," ","8",".","5">>), Txt(<<"1","0","0","0","0","0">>), Txt(<<"A","A","A">>), Num(1, 100)>>,
               <<Num(0, 1), Num(2, 1), Txt(<<"C">>), NaN>>,
               Block(Num(-100000, 1), Num(1, 2), <<"D">>, Num(15, 100))),
         Row14(NoBlock,
               Block(Num(2, 1), Num(4, 1), <<"B">>, Txt(<<"n","/","a">>)),
               Block(Num(1, 2), Num(100000, 1), <<"A">>, Num(1, 100))) >>)

\* nothing but header rows
HeaderOnlyBook == RatingsSheet(14, HeaderRows)

\* a sheet that ends after the small-cap block
NarrowBook ==
    RatingsSheet(9, [i \in 1..4 |->
        SubSeq((HeaderRows \o
                << Row14(Block(Num(0, 1), Num(999, 1), <<"N">>, Num(3, 100)),
                         Block(Num(0, 1), Num(999, 1), <<"N">>, Num(3, 100)), NoBlock) >>)[i],
               1, 9)])

RatingBooks == {MissingRatingsFile, ExampleBook, FinancialBook, HeaderOnlyBook, NarrowBook}

\* the user replaces the ratings workbook on disk
ReplaceRatingsFile ==
    /\ \E f \in RatingBooks : ratings_file' = f
    /\ ratings_file' # ratings_file
    /\ op' = "ReplaceRatingsFile" /\ ret' = Ret("None") /\ out' = ""
    /\ arg' = None
    /\ UNCHANGED <<debt, beta, table_file, stdin, wacc>>

RatingInfos ==
    { Info(Some(5001), Some(<<"T","e","c","h","n","o","l","o","g","y">>), Some(<<"S","o","f","t","w","a","r","e">>)),
      Info(Some(5000), Some(<<"E","n","e","r","g","y">>), Some(<<"O","i","l"," ","&"," ","G","a","s">>)),
      Info(Some(5001), Some(<<"F","i","n","a","n","c","i","a","l"," ","S","e","r","v","i","c","e","s">>), Some(<<"B","a","n","k","s"," ","-"," ","R","e","g","i","o","n","a","l">>)) }

\* EBIT and interest expense giving the coverage ratios 1.5, 2, -1, 3, 20
\* (no interest) and 1000
RatingStreams ==
    { <<<<"3">>, <<"2">>>>, <<<<"2">>, <<"1">>>>, <<<<"-","1">>, <<"1">>>>, <<<<"3">>, <<"1">>>>, <<<<"5">>, <<"0">>>>,
      <<<<"1","0","0","0">>, <<"1">>>> }

RatingCompanyInfo == get_company_info(RatingInfos)
RatingFinancialInputs == get_financial_inputs(RatingStreams)

InitRating ==
    /\ debt = CostOfDebtCalculator_init
    /\ beta = BetaCalculator_init
    /\ table_file = MissingFile
    /\ ratings_file \in RatingBooks
    /\ op = "__init__"
    /\ ret = Ret("None")
    /\ out = ""
    /\ stdin = <<>>
    /\ wacc = WACCCalculator_init
    /\ arg = None

NextRating ==
    \/ CostOfDebtCalculator_load_synthetic_ratings_data
    \/ RatingCompanyInfo
    \/ RatingFinancialInputs
    \/ assign_synthetic_rating
    \/ ReplaceRatingsFile

SpecRating == InitRating /\ [][NextRating]_vars

(***************************************************************************)
(* The reference-table loaders, run on every generated workbook.           *)
(***************************************************************************)
InitTables ==
    /\ debt = CostOfDebtCalculator_init
    /\ beta = BetaCalculator_init
    /\ table_file \in GenSheets
    /\ ratings_file = MissingRatingsFile
    /\ op = "__init__"
    /\ ret = Ret("None")
    /\ out = ""
    /\ stdin = <<>>
    /\ wacc = WACCCalculator_init
    /\ arg = None

NextTables ==
    \/ CostOfDebtCalculator_load_bond_yield_data
    \/ BetaCalculator_load_bond_yield_data
    \/ BetaCalculator_load_erp_data
    \/ ReplaceTableFile

SpecTables == InitTables /\ [][NextTables]_vars

(***************************************************************************)
(* What a rating assignment had to work with, read off the calculator.     *)
(***************************************************************************)
AssignEntered(self) ==
    /\ ~IsNone(self.synthetic_ratings_data)
    /\ ~IsNone(self.company_type)
    /\ ~IsNone(self.interest_coverage_ratio)
SelectedTable(self) == Val(self.synthetic_ratings_data)[Val(self.company_type)]
\* lo <= r <= hi on fractions with positive denominators
Within(b, r) ==
    /\ b.min_ratio[1] * r[2] <= r[1] * b.min_ratio[2]
    /\ r[1] * b.max_ratio[2] <= b.max_ratio[1] * r[2]
NoBandHolds(self) ==
    \A i \in 1..Len(SelectedTable(self)) :
        ~Within(SelectedTable(self)[i], Val(self.interest_coverage_ratio))
Assigned ==
    op = "CostOfDebtCalculator.assign_synthetic_rating" /\ AssignEntered(debt)
ExampleTable ==
    << Band(<<0, 1>>, <<3, 2>>, <<"D">>, <<1, 10>>),
       Band(<<3, 2>>, <<3, 1>>, <<"B">>, <<1, 20>>),
       Band(<<3, 1>>, <<999, 1>>, <<"A">>, <<1, 100>>) >>

(***************************************************************************)
(* C1: rating assignment returns the rating and spread of the first band,  *)
(* in stored order, with min_ratio <= ratio <= max_ratio, both ends        *)
(* inclusive, so a ratio on a boundary shared by two bands gets the        *)
(* earlier band; on (0,1.5,D,10%), (1.5,3,B,5%), (3,999,A,1%) the ratio    *)
(* 1.5 gives D and the ratio 2 gives B.                                    *)
(***************************************************************************)
C1_FirstBandWins ==
    Assigned =>
        LET T == SelectedTable(debt)
            r == Val(debt.interest_coverage_ratio)
        IN  /\ \A i \in 1..Len(T) :
                  (Within(T[i], r) /\ \A j \in 1..(i - 1) : ~Within(T[j], r))
                      => /\ ret = RetTrue
                         /\ debt.rating = Some(T[i].rating)
                         /\ debt.spread = Some(T[i].spread)
            /\ (T = ExampleTable /\ r = <<3, 2>>)
                  => debt.rating = Some(<<"D">>) /\ debt.spread = Some(<<1, 10>>)
            /\ (T = ExampleTable /\ r = <<2, 1>>)
                  => debt.rating = Some(<<"B">>) /\ debt.spread = Some(<<1, 20>>)

\* the ratio 1.5 lies in the first two bands of the example and got D
C1_Witness ==
    /\ Assigned
    /\ SelectedTable(debt) = ExampleTable
    /\ debt.interest_coverage_ratio = Some(<<3, 2>>)
    /\ Within(ExampleTable[1], <<3, 2>>) /\ Within(ExampleTable[2], <<3, 2>>)
    /\ ret = RetTrue
    /\ debt.rating = Some(<<"D">>)

(***************************************************************************)
(* C2: when no band of the selected table contains the coverage ratio,     *)
(* rating assignment does not fail: it returns True with the rating and    *)
(* spread of the table's first entry.  Violated on a selected table that   *)
(* has no entry, where `rating_table[0]` raises IndexError.                *)
(***************************************************************************)
C2_FallbackNeverFails ==
    (Assigned /\ NoBandHolds(debt)) =>
        /\ ret = RetTrue
        /\ Len(SelectedTable(debt)) > 0
        /\ debt.rating = Some(SelectedTable(debt)[1].rating)
        /\ debt.spread = Some(SelectedTable(debt)[1].spread)

Keywords == {financial_keywords[i] : i \in 1..Len(financial_keywords)}
Classified == op = "CostOfDebtCalculator.get_company_info" /\ ret = RetTrue

C4_CompanyClassification ==
    Classified =>
        LET info == Val(debt.company_info)
            sector == Lower(GetText(info.sector))
            industry == Lower(GetText(info.industry))
            fin == \E kw \in Keywords : Contains(sector, kw) \/ Contains(industry, kw)
            cap == Val(debt.market_cap)
        IN  /\ Cardinality(Keywords) = 8
            /\ debt.market_cap = info.marketCap
            /\ debt.is_financial = Some(fin)
            /\ fin => debt.company_type = Some("financial")
            /\ (~fin /\ cap > 5000) => debt.company_type = Some("large_cap")
            /\ (~fin /\ cap <= 5000) => debt.company_type = Some("small_cap")

\* a software company worth exactly 5,000,000,000 is a small cap
C4_Witness ==
    /\ Classified
    /\ debt.market_cap = Some(5000)
    /\ debt.is_financial = Some(FALSE)
    /\ debt.company_type = Some("small_cap")

(***************************************************************************)
(* C5: after get_financial_inputs the coverage ratio is ebit / interest    *)
(* when the interest expense typed is above zero, and exactly 20 with an   *)
(* interest expense of 0 stored when it is zero or negative, whatever the  *)
(* EBIT; an EBIT of 1500 with an interest expense of 75 also gives exactly *)
(* 20, as does an EBIT of 1500 with an interest expense of 0.              *)
(***************************************************************************)
\* the amounts typed, in millions, read off the lines by hand
TypedAmount(line) ==
    CASE line = <<"1","5","0","0">> -> <<1500, 1>>
      [] line = <<" ","7","5"," ">> -> <<75, 1>>
      [] line = <<"0">> -> <<0, 1>>
      [] line = <<"-","5">> -> <<-5, 1>>
      [] line = <<"3","7",".","5">> -> <<75, 2>>
IsAmount(line) == line \in NumberLines
Amounts == SelectSeq(stdin, IsAmount)
SameFraction(a, b) == a[1] * b[2] = b[1] * a[2]
InputsRead == op = "CostOfDebtCalculator.get_financial_inputs"

C5_CoverageRatio ==
    InputsRead =>
        LET e == TypedAmount(Amounts[1])
            i == TypedAmount(Amounts[2])
            ratio == Val(debt.interest_coverage_ratio)
        IN  /\ Len(Amounts) = 2
            /\ ret = RetTrue
            /\ SameFraction(Val(debt.ebit), <<e[1] * 1000000, e[2]>>)
            /\ i[1] > 0 =>
                  /\ SameFraction(Val(debt.interest_expense), <<i[1] * 1000000, i[2]>>)
                  /\ SameFraction(ratio, <<e[1] * i[2], e[2] * i[1]>>)
            /\ i[1] <= 0 =>
                  /\ debt.interest_expense = Some(<<0, 1>>)
                  /\ ratio = <<20, 1>>
            /\ (e = <<1500, 1>> /\ i = <<75, 1>>) => ratio = <<20, 1>>
            /\ (e = <<1500, 1>> /\ i = <<0, 1>>) => ratio = <<20, 1>>

\* 1500 over 75, typed after a rejected line, is 20 on the computed path
C5_Witness ==
    /\ InputsRead
    /\ stdin = <<<<"x">>, <<"1","5","0","0">>, <<" ","7","5"," ">>>>
    /\ debt.interest_expense = Some(<<75000000, 1>>)
    /\ debt.interest_coverage_ratio = Some(<<20, 1>>)

(***************************************************************************)
(* What a workbook's rows say, read off the rows one by one.               *)
(***************************************************************************)
\* row i has a country cell and a value cell under `column` that float() accepts
RowAccepted(file, column, i) ==
    /\ NotNa(Cell(file.cols, file.rows[i], "Country"))
    /\ NotNa(Cell(file.cols, file.rows[i], column))
    /\ CellFloat(Cell(file.cols, file.rows[i], column)).ok
RowKey(file, i) == Upper(Strip(CellStr(Cell(file.cols, file.rows[i], "Country"))))
RowValue(file, column, i) == CellFloat(Cell(file.cols, file.rows[i], column)).v
AcceptedRows(file, column) == {i \in 1..Len(file.rows) : RowAccepted(file, column, i)}
Max(S) == CHOOSE x \in S : \A y \in S : y <= x
\* the last accepted row whose country normalizes to key k
LastRow(file, column, k) ==
    Max({i \in AcceptedRows(file, column) : RowKey(file, i) = k})
\* the earliest name of `possible` that labels a column of the workbook
EarliestHeader(file, possible) ==
    possible[CHOOSE i \in 1..Len(possible) :
        /\ InSeq(possible[i], file.cols)
        /\ \A j \in 1..(i - 1) : ~InSeq(possible[j], file.cols)]
Loadable(file, possible) ==
    /\ file.exists
    /\ InSeq("Country", file.cols)
    /\ \E i \in 1..Len(possible) : InSeq(possible[i], file.cols)
YieldHeaders == <<"Yield 10y", "10Y Yield", "Yield", "10 Year Yield">>
ErpHeaders == <<"Total Equity Risk Premium", "Equity Risk Premium", "ERP">>
\* v / 100 when v > 1, else v
Percentage(v) == IF v[1] > v[2] THEN Rat(v[1], 100 * v[2]) ELSE v

BondLoaded(who) == op = who /\ ret = RetTrue

\* every key of table d holds the last accepted row's value, converted by
\* the percentage rule when `scaled`, and every accepted row has its key in d
TableOfRows(d, file, column, scaled) ==
    /\ Keys(d) = {RowKey(file, i) : i \in AcceptedRows(file, column)}
    /\ Len(d) = Cardinality(Keys(d))
    /\ \A k \in Keys(d) :
          LET v == RowValue(file, column, LastRow(file, column, k))
          IN  Get(d, k) = IF scaled THEN Percentage(v) ELSE v

(***************************************************************************)
(* C6: a loaded bond-yield table stores, for each accepted row's value v,  *)
(* v/100 when v > 1 and v itself when v <= 1 (a cell of exactly 1 stays    *)
(* 1), the division being applied once.                                    *)
(***************************************************************************)
C6_YieldNormalizedOnce ==
    /\ BondLoaded("CostOfDebtCalculator.load_bond_yield_data") =>
          \A k \in Keys(Val(debt.bond_yield_data)) :
             LET v == RowValue(table_file, EarliestHeader(table_file, YieldHeaders),
                               LastRow(table_file, EarliestHeader(table_file, YieldHeaders), k))
             IN  Get(Val(debt.bond_yield_data), k) =
                    IF RLt(RInt(1), v) THEN RDiv(v, RInt(100)) ELSE v
    /\ BondLoaded("BetaCalculator.load_bond_yield_data") =>
          \A k \in Keys(Val(beta.bond_yield_data)) :
             LET v == RowValue(table_file, EarliestHeader(table_file, YieldHeaders),
                               LastRow(table_file, EarliestHeader(table_file, YieldHeaders), k))
             IN  Get(Val(beta.bond_yield_data), k) =
                    IF RLt(RInt(1), v) THEN RDiv(v, RInt(100)) ELSE v

\* a bond table holding 1 (from a cell of exactly 1) and 9/200 (from 4.5)
C6_Witness ==
    /\ BondLoaded("CostOfDebtCalculator.load_bond_yield_data")
    /\ HasKey(Val(debt.bond_yield_data), <<"I","T","A","L","Y">>)
    /\ Get(Val(debt.bond_yield_data), <<"I","T","A","L","Y">>) = <<1, 1>>
    /\ HasKey(Val(debt.bond_yield_data), <<"U","S","A">>)
    /\ Get(Val(debt.bond_yield_data), <<"U","S","A">>) = <<9, 200>>

(***************************************************************************)
(* C7: loading the same rows as ERP data and as bond-yield data gives the  *)
(* same key-to-value mapping (an ERP cell above 1 is stored divided by     *)
(* 100).                                                                   *)
(***************************************************************************)
SameCells(file, c1, c2) ==
    \A i \in 1..Len(file.rows) :
       Cell(file.cols, file.rows[i], c1) = Cell(file.cols, file.rows[i], c2)

C7_ErpSameAsBond ==
    ( /\ BondLoaded("BetaCalculator.load_erp_data")
      /\ Loadable(table_file, YieldHeaders)
      /\ SameCells(table_file, EarliestHeader(table_file, YieldHeaders),
                   EarliestHeader(table_file, ErpHeaders)) )
    => Val(beta.erp_data) =
          BC_BondRows(<<>>, table_file.cols, table_file.rows,
                      EarliestHeader(table_file, YieldHeaders))

(***************************************************************************)
(* C8: every value stored in a bond-yield or ERP table lies in 0..1.       *)
(***************************************************************************)
InUnitRange(d) == \A i \in 1..Len(d) : RLeq(RInt(0), d[i][2]) /\ RLeq(d[i][2], RInt(1))

C8_StoredInUnitRange ==
    /\ ~IsNone(debt.bond_yield_data) => InUnitRange(Val(debt.bond_yield_data))
    /\ ~IsNone(beta.bond_yield_data) => InUnitRange(Val(beta.bond_yield_data))
    /\ ~IsNone(beta.erp_data) => InUnitRange(Val(beta.erp_data))

(***************************************************************************)
(* C9: the keys of a loaded table are the trimmed, upper-cased country     *)
(* cells of the accepted rows; a key given by several rows holds the value *)
(* of the last of them; a row whose country or value is missing, or whose  *)
(* value is not numeric, adds no key.                                      *)
(***************************************************************************)
C9_KeysAndLastRowWins ==
    /\ BondLoaded("CostOfDebtCalculator.load_bond_yield_data") =>
          TableOfRows(Val(debt.bond_yield_data), table_file,
                      EarliestHeader(table_file, YieldHeaders), TRUE)
    /\ BondLoaded("BetaCalculator.load_bond_yield_data") =>
          TableOfRows(Val(beta.bond_yield_data), table_file,
                      EarliestHeader(table_file, YieldHeaders), TRUE)
    /\ BondLoaded("BetaCalculator.load_erp_data") =>
          TableOfRows(Val(beta.erp_data), table_file,
                      EarliestHeader(table_file, ErpHeaders), FALSE)

\* two accepted rows, "USA" then " usa ", leave the one key USA with the
\* second row's value
C9_Witness ==
    /\ BondLoaded("BetaCalculator.load_erp_data")
    /\ Len(table_file.rows) = 2
    /\ AcceptedRows(table_file, "ERP") = {1, 2}
    /\ Cell(table_file.cols, table_file.rows[1], "Country") = Txt(<<"U","S","A">>)
    /\ Cell(table_file.cols, table_file.rows[2], "Country") = Txt(<<" ","u","s","a"," ">>)
    /\ Val(beta.erp_data) = << <<(<<"U","S","A">>), <<3, 100>>>> >>

(***************************************************************************)
(* C10: a loader reads the value column named by the earliest accepted     *)
(* header present in the workbook; without a Country column, or without    *)
(* any accepted value header, it fails and the table it held before (or    *)
(* None) stays.                                                            *)
(***************************************************************************)
C10_ColumnChoiceAndFailure ==
    [][ /\ op' = "CostOfDebtCalculator.load_bond_yield_data" =>
            IF Loadable(table_file, YieldHeaders)
            THEN /\ ret' = RetTrue
                 /\ TableOfRows(Val(debt'.bond_yield_data), table_file,
                                EarliestHeader(table_file, YieldHeaders), TRUE)
            ELSE ret' = RetFalse /\ debt'.bond_yield_data = debt.bond_yield_data
        /\ op' = "BetaCalculator.load_bond_yield_data" =>
            IF Loadable(table_file, YieldHeaders)
            THEN /\ ret' = RetTrue
                 /\ TableOfRows(Val(beta'.bond_yield_data), table_file,
                                EarliestHeader(table_file, YieldHeaders), TRUE)
            ELSE ret' = RetFalse /\ beta'.bond_yield_data = beta.bond_yield_data
        /\ op' = "BetaCalculator.load_erp_data" =>
            IF Loadable(table_file, ErpHeaders)
            THEN /\ ret' = RetTrue
                 /\ TableOfRows(Val(beta'.erp_data), table_file,
                                EarliestHeader(table_file, ErpHeaders), FALSE)
            ELSE ret' = RetFalse /\ beta'.erp_data = beta.erp_data
      ]_vars

\* the table read from the "Yield 10y" column (4, stored 1/25) of a workbook
\* holding all four yield headers is still held after a load of a workbook
\* without any yield header has failed
C10_Witness ==
    /\ op = "CostOfDebtCalculator.load_bond_yield_data"
    /\ ret = RetFalse
    /\ table_file = NoValueSheet
    /\ debt.bond_yield_data = Some(<< <<(<<"U","K">>), <<1, 25>>>> >>)

(***************************************************************************)
(* The ratings loader, run on every short generated ratings workbook.      *)
(***************************************************************************)
\* data rows of a ratings sheet: complete bands, a blank row, bounds given
\* as text, a missing spread, a spread typed as text, a spread that is no
\* number, a missing label
SampleBandRows ==
    { Row14(Block(Num(0, 1), Num(2, 1), <<"D">>, Num(1, 10)),
            Block(Num(0, 1), Num(3, 1), <<"C">>, Num(8, 100)),
            Block(Num(0, 1), Num(1, 2), <<"D">>, Num(15, 100))),
      Row14(Block(Num(2, 1), Num(999, 1), <<"A">>, Num(1, 100)), NoBlock, NoBlock),
      Row14(NoBlock, NoBlock, NoBlock),
      Row14(<<Txt(<<">">>), Txt(<<"8",".","5">>), Txt(<<"A","A","A">>), Num(1, 100)>>,
            Block(Num(3, 1), Num(999, 1), <<"B">>, Num(4, 100)), NoBlock),
      Row14(<<Num(2, 1), Num(4, 1), Txt(<<"B">>), NaN>>, NoBlock,
            Block(Num(1, 2), Num(999, 1), <<"A">>, Txt(<<"0",".","0","2">>))),
      Row14(NoBlock, Block(Num(2, 1), Num(4, 1), <<"B">>, Txt(<<"n","/","a">>)), NoBlock),
      Row14(NoBlock, NoBlock, <<Num(0, 1), Num(1, 1), NaN, Num(1, 10)>>) }

BandRowSeqs == UNION {[1..n -> SampleBandRows] : n \in 0..MaxRows}

GenBooks == {RatingsSheet(14, HeaderRows \o rows) : rows \in BandRowSeqs}

InitRatings ==
    /\ debt = CostOfDebtCalculator_init
    /\ beta = BetaCalculator_init
    /\ table_file = MissingFile
    /\ ratings_file \in GenBooks \cup RatingBooks
    /\ op = "__init__"
    /\ ret = Ret("None")
    /\ out = ""
    /\ stdin = <<>>
    /\ wacc = WACCCalculator_init
    /\ arg = None

NextRatings == CostOfDebtCalculator_load_synthetic_ratings_data

SpecRatings == InitRatings /\ [][NextRatings]_vars

(***************************************************************************)
(* What a ratings sheet says, read off its rows one by one.                *)
(***************************************************************************)
\* the four cells of the block at column c (0-based) are present and the
\* two bounds are numbers
BandPresent(row, c) ==
    /\ \A k \in 1..4 : row[c + k].t # "nan"
    /\ row[c + 1].t = "num" /\ row[c + 2].t = "num"
\* ... and float() accepts the spread cell
BandAccepted(row, c) == BandPresent(row, c) /\ CellFloat(row[c + 4]).ok
DataRows(file) == 4..Len(file.rows)
\* the k-th smallest member of a set of row numbers
Nth(S, k) == CHOOSE x \in S : Cardinality({y \in S : y < x}) = k - 1
\* the bounds and labels of the listed rows' blocks at column c, in sheet order
BoundsAndLabels(file, c, S) ==
    [k \in 1..Cardinality(S) |->
        <<file.rows[Nth(S, k)][c + 1].v, file.rows[Nth(S, k)][c + 2].v,
          file.rows[Nth(S, k)][c + 3].s>>]
SpreadsOf(file, c, S) ==
    [k \in 1..Cardinality(S) |-> CellFloat(file.rows[Nth(S, k)][c + 4]).v]
TableBoundsAndLabels(t) ==
    [k \in 1..Len(t) |-> <<t[k].min_ratio, t[k].max_ratio, t[k].rating>>]
TableSpreads(t) == [k \in 1..Len(t) |-> t[k].spread]
RatingsLoadRan ==
    op = "CostOfDebtCalculator.load_synthetic_ratings_data" /\ ratings_file.exists
LoadedTables == Val(debt.synthetic_ratings_data)
BlockColumns == <<0, 5, 10>>
TableAt(data, n) ==
    CASE n = 1 -> data.large_cap [] n = 2 -> data.small_cap [] n = 3 -> data.financial

CD_country_alternatives ==
    << <<<<"U","S","A">>, <<<<"U","N","I","T","E","D"," ","S","T","A","T","E","S">>, <<"U","S">>>>>>,
       <<<<"U","N","I","T","E","D"," ","S","T","A","T","E","S">>, <<<<"U","S","A">>, <<"U","S">>>>>>,
       <<<<"U","K">>, <<<<"U","N","I","T","E","D"," ","K","I","N","G","D","O","M">>, <<"B","R","I","T","A","I","N">>>>>>,
       <<<<"U","N","I","T","E","D"," ","K","I","N","G","D","O","M">>, <<<<"U","K">>, <<"B","R","I","T","A","I","N">>>>>> >>

\* `country_alternatives` of get_bond_yield_from_excel
BC_country_alternatives ==
    << <<<<"U","S","A">>, <<<<"U","N","I","T","E","D"," ","S","T","A","T","E","S">>, <<"U","S">>, <<"A","M","E","R","I","C","A">>>>>>,
       <<<<"U","N","I","T","E","D"," ","S","T","A","T","E","S">>, <<<<"U","S","A">>, <<"U","S">>, <<"A","M","E","R","I","C","A">>>>>>,
       <<<<"U","K">>, <<<<"U","N","I","T","E","D"," ","K","I","N","G","D","O","M">>, <<"B","R","I","T","A","I","N">>, <<"G","R","E","A","T"," ","B","R","I","T","A","I","N">>>>>>,
       <<<<"U","N","I","T","E","D"," ","K","I","N","G","D","O","M">>, <<<<"U","K">>, <<"B","R","I","T","A","I","N">>, <<"G","R","E","A","T"," ","B","R","I","T","A","I","N">>>>>> >>

\* `country_alternatives` of get_equity_risk_premium
ERP_country_alternatives ==
    << <<<<"U","N","I","T","E","D"," ","S","T","A","T","E","S">>, <<<<"U","S","A">>, <<"U","S">>>>>>,
       <<<<"U","N","I","T","E","D"," ","K","I","N","G","D","O","M">>, <<<<"U","K">>, <<"B","R","I","T","A","I","N">>>>>> >>

\* the last alternative that is a key of the table
FirstAlias_Last(data, alternatives) ==
    LET hits == {i \in 1..Len(alternatives) : HasKey(data, alternatives[i])}
    IN  IF hits = {} THEN None ELSE Some(alternatives[Max(hits)])

\* `for alt in alternatives: if alt in data`: the alternative the loop stops at
FirstAlias(data, alternatives) ==
    LET hits == {i \in 1..Len(alternatives) : HasKey(data, alternatives[i])}
    IN  IF hits = {} THEN None ELSE Some(alternatives[Min(hits)])

\* the exact key first, then the alternatives listed for the key
Lookup(data, country_alternatives, country_upper) ==
    IF HasKey(data, country_upper) THEN Some(Get(data, country_upper))
    ELSE IF HasKey(country_alternatives, country_upper)
    THEN LET alt == FirstAlias(data, Get(country_alternatives, country_upper))
         IN  IF IsNone(alt) THEN None ELSE Some(Get(data, Val(alt)))
    ELSE None

\* the prompt loop shared by select_risk_free_rate and
\* select_bond_country_from_excel: blank lines are asked again, a country
\* that is not found asks "Try again?", and n / no ends the loop
RECURSIVE SelectCountry(_, _, _)
SelectCountry(data, country_alternatives, lines) ==
    IF Len(lines) = 0
    THEN [k |-> "EOFError", v |-> <<0, 1>>, country |-> <<>>, rest |-> <<>>]
    ELSE LET country_input == Strip(Head(lines))
             hit == Lookup(data, country_alternatives, Upper(country_input))
         IN  IF Len(country_input) = 0
             THEN SelectCountry(data, country_alternatives, Tail(lines))
             ELSE IF ~IsNone(hit)
             THEN [k |-> "found", v |-> Val(hit), country |-> country_input,
                   rest |-> Tail(lines)]
             ELSE IF Len(lines) = 1
             THEN [k |-> "EOFError", v |-> <<0, 1>>, country |-> <<>>, rest |-> <<>>]
             ELSE IF Lower(Strip(lines[2])) \in {<<"n">>, <<"n","o">>}
             THEN [k |-> "declined", v |-> <<0, 1>>, country |-> country_input,
                   rest |-> Tail(Tail(lines))]
             ELSE SelectCountry(data, country_alternatives, Tail(Tail(lines)))

\* CostOfDebtCalculator.select_risk_free_rate
select_risk_free_rate(streams) ==
    /\ op' = "CostOfDebtCalculator.select_risk_free_rate"
    /\ IF IsNone(debt.bond_yield_data)
       THEN /\ ret' = RetFalse /\ out' = "bond yield data not loaded"
            /\ stdin' = <<>>
            /\ UNCHANGED debt
       ELSE \E lines \in streams :
              LET r == SelectCountry(Val(debt.bond_yield_data),
                                     CD_country_alternatives, lines)
              IN  /\ r.k # "EOFError" /\ Len(r.rest) = 0
                  /\ stdin' = lines
                  /\ IF r.k = "found"
                     THEN /\ debt' = [debt EXCEPT !.risk_free_rate = Some(r.v)]
                          /\ ret' = RetTrue /\ out' = "risk-free rate"
                     ELSE /\ UNCHANGED debt
                          /\ ret' = RetFalse /\ out' = "country not found"
    /\ arg' = None
    /\ UNCHANGED <<beta, table_file, ratings_file, wacc>>

\* BetaCalculator.select_bond_country_from_excel, with its calls of
\* get_bond_yield_from_excel
select_bond_country_from_excel(streams) ==
    /\ op' = "BetaCalculator.select_bond_country_from_excel"
    /\ IF IsNone(beta.bond_yield_data)
       THEN /\ ret' = Ret("None") /\ out' = "bond yield data not loaded"
            /\ stdin' = <<>>
            /\ UNCHANGED beta
       ELSE \E lines \in streams :
              LET r == SelectCountry(Val(beta.bond_yield_data),
                                     BC_country_alternatives, lines)
              IN  /\ r.k # "EOFError" /\ Len(r.rest) = 0
                  /\ stdin' = lines
                  /\ IF r.k = "found"
                     THEN /\ beta' = [beta EXCEPT
                                 !.current_risk_free_rate = Some(r.v),
                                 !.avg_risk_free_rate = Some(r.v),
                                 !.bond_symbol = Some(Upper(r.country)),
                                 !.bond_data = Some(RMul(r.v, RInt(100)))]
                          /\ ret' = RetValue(r.v) /\ out' = "risk-free rate set"
                     ELSE /\ UNCHANGED beta
                          /\ ret' = Ret("None") /\ out' = "country not found"
    /\ arg' = None
    /\ UNCHANGED <<debt, table_file, ratings_file, wacc>>

\* detect_country_from_index
index_country_map ==
    << <<<<"^","G","S","P","C">>, <<"U","n","i","t","e","d"," ","S","t","a","t","e","s">>>>,
       <<<<"^","D","J","I">>, <<"U","n","i","t","e","d"," ","S","t","a","t","e","s">>>>,
       <<<<"^","I","X","I","C">>, <<"U","n","i","t","e","d"," ","S","t","a","t","e","s">>>>,
       <<<<"^","G","D","A","X","I">>, <<"G","e","r","m","a","n","y">>>>,
       <<<<"^","F","C","H","I">>, <<"F","r","a","n","c","e">>>>,
       <<<<"F","T","S","E","M","I","B",".","M","I">>, <<"I","t","a","l","y">>>>,
       <<<<"^","F","T","S","E">>, <<"U","n","i","t","e","d"," ","K","i","n","g","d","o","m">>>>,
       <<<<"^","A","E","X">>, <<"N","e","t","h","e","r","l","a","n","d","s">>>>,
       <<<<"^","S","S","M","I">>, <<"S","w","i","t","z","e","r","l","a","n","d">>>>,
       <<<<"^","I","B","E","X">>, <<"S","p","a","i","n">>>>,
       <<<<"^","N","2","2","5">>, <<"J","a","p","a","n">>>>,
       <<<<"^","A","O","R","D">>, <<"A","u","s","t","r","a","l","i","a">>>>,
       <<<<"^","G","S","P","T","S","E">>, <<"C","a","n","a","d","a">>>>,
       <<<<"^","B","V","S","P">>, <<"B","r","a","z","i","l">>>>,
       <<<<"^","M","X","X">>, <<"M","e","x","i","c","o">>>> >>

alternative_patterns ==
    << <<<<".","M","I">>, <<"I","t","a","l","y">>>>,
       <<<<".","D","E">>, <<"G","e","r","m","a","n","y">>>>,
       <<<<".","P","A">>, <<"F","r","a","n","c","e">>>>,
       <<<<".","L">>, <<"U","n","i","t","e","d"," ","K","i","n","g","d","o","m">>>>,
       <<<<".","A","S">>, <<"N","e","t","h","e","r","l","a","n","d","s">>>>,
       <<<<".","S","W">>, <<"S","w","i","t","z","e","r","l","a","n","d">>>>,
       <<<<".","T","O">>, <<"C","a","n","a","d","a">>>>,
       <<<<".","A","X">>, <<"A","u","s","t","r","a","l","i","a">>>> >>

detect_country_from_index(index_symbol) ==
    LET index_upper == Upper(index_symbol)
        hits == {i \in 1..Len(alternative_patterns) :
                    Contains(index_upper, Upper(alternative_patterns[i][1]))}
    IN  IF HasKey(index_country_map, index_upper)
        THEN Some(Get(index_country_map, index_upper))
        ELSE IF hits # {} THEN Some(alternative_patterns[Min(hits)][2])
        ELSE None

\* the loop over country_alternatives.items() of get_equity_risk_premium
ErpAlias(data, country_upper) ==
    IF HasKey(ERP_country_alternatives, country_upper)
    THEN FirstAlias(data, Get(ERP_country_alternatives, country_upper))
    ELSE None

\* BetaCalculator.get_equity_risk_premium(index_symbol)
get_equity_risk_premium(symbols) ==
    /\ op' = "BetaCalculator.get_equity_risk_premium"
    /\ \E index_symbol \in symbols :
          /\ arg' = Some(index_symbol)
          /\ IF IsNone(beta.erp_data)
             THEN /\ ret' = Ret("None") /\ out' = "" /\ UNCHANGED beta
             ELSE LET detected == detect_country_from_index(index_symbol)
                      data == Val(beta.erp_data)
                  IN  IF IsNone(detected)
                      THEN /\ beta' = [beta EXCEPT !.detected_country = None]
                           /\ ret' = Ret("None") /\ out' = "could not detect country"
                      ELSE IF HasKey(data, Upper(Val(detected)))
                      THEN /\ beta' = [beta EXCEPT
                                  !.detected_country = detected,
                                  !.equity_risk_premium = Some(Get(data, Upper(Val(detected))))]
                           /\ ret' = RetValue(Get(data, Upper(Val(detected))))
                           /\ out' = "equity risk premium"
                      ELSE IF ~IsNone(ErpAlias(data, Upper(Val(detected))))
                      THEN /\ beta' = [beta EXCEPT
                                  !.detected_country = detected,
                                  !.equity_risk_premium =
                                      Some(Get(data, Val(ErpAlias(data, Upper(Val(detected))))))]
                           /\ ret' = RetValue(Get(data, Val(ErpAlias(data, Upper(Val(detected))))))
                           /\ out' = "equity risk premium"
                      ELSE /\ beta' = [beta EXCEPT !.detected_country = detected]
                           /\ ret' = Ret("None") /\ out' = "no ERP data found"
    /\ UNCHANGED <<debt, table_file, ratings_file, stdin, wacc>>

(***************************************************************************)
(* The lookups, run on every workbook that lists a few of the countries.   *)
(***************************************************************************)
\* the most countries a generated workbook lists
MaxCountries == 2

\* <<country cell, value cell>>: each name has a yield of its own
CountryRows ==
    << <<Txt(<<"U","S","A">>), Num(1, 100)>>,
       <<Txt(<<"U","N","I","T","E","D"," ","S","T","A","T","E","S">>), Num(2, 100)>>,
       <<Txt(<<"U","S">>), Num(3, 100)>>,
       <<Txt(<<"U","K">>), Num(4, 100)>>,
       <<Txt(<<"B","R","I","T","A","I","N">>), Num(5, 100)>>,
       <<Txt(<<"A","M","E","R","I","C","A">>), Num(6, 100)>> >>

LookupSheets ==
    { Sheet(<<"Country", "Yield", "ERP">>,
            [k \in 1..Cardinality(S) |->
                <<CountryRows[Nth(S, k)][1], CountryRows[Nth(S, k)][2],
                  CountryRows[Nth(S, k)][2]>>]) :
      S \in {S \in SUBSET (1..Len(CountryRows)) :
                Cardinality(S) >= 1 /\ Cardinality(S) <= MaxCountries} }

\* what the user types at the country prompt and at "Try again?"
CountryStreams ==
    { <<<<"u","s","a">>>>,
      <<<<"U","n","i","t","e","d"," ","S","t","a","t","e","s">>>>,
      <<<<"U","S">>>>,
      <<<<" ","u","k"," ">>>>,
      <<<<"B","r","i","t","a","i","n">>>>,
      <<<<"u","s","a">>, <<"n">>>>,
      <<<<"U","S">>, <<" ","N","o"," ">>>>,
      <<<<"B","r","i","t","a","i","n">>, <<"n">>>>,
      <<<<>>, <<" ","M","a","r","s"," ">>, <<"y">>, <<"u","s","a">>>> }

IndexSymbols == {<<"^","G","S","P","C">>, <<"^","f","t","s","e">>, <<"E","N","I",".","M","I">>, <<"^","X","Y","Z">>}

CostOfDebtCalculator_select_risk_free_rate == select_risk_free_rate(CountryStreams)
BetaCalculator_select_bond_country_from_excel ==
    select_bond_country_from_excel(CountryStreams)
BetaCalculator_get_equity_risk_premium == get_equity_risk_premium(IndexSymbols)

InitLookup ==
    /\ debt = CostOfDebtCalculator_init
    /\ beta = BetaCalculator_init
    /\ table_file \in LookupSheets
    /\ ratings_file = MissingRatingsFile
    /\ op = "__init__"
    /\ ret = Ret("None")
    /\ out = ""
    /\ stdin = <<>>
    /\ wacc = WACCCalculator_init
    /\ arg = None

NextLookup ==
    \/ CostOfDebtCalculator_load_bond_yield_data
    \/ BetaCalculator_load_bond_yield_data
    \/ CostOfDebtCalculator_select_risk_free_rate
    \/ BetaCalculator_select_bond_country_from_excel

SpecLookup == InitLookup /\ [][NextLookup]_vars

(***************************************************************************)
(* What a country lookup was asked and what it had to look in.             *)
(***************************************************************************)
DebtLookupRan ==
    op = "CostOfDebtCalculator.select_risk_free_rate" /\ ~IsNone(debt.bond_yield_data)
BetaLookupRan ==
    op = "BetaCalculator.select_bond_country_from_excel" /\ ~IsNone(beta.bond_yield_data)
LookupFound == ret # RetFalse /\ ret # Ret("None")
\* the country the call ended on: the last line typed when it was found,
\* the line before the refusal to try again when it was not
AskedKey ==
    Upper(Strip(IF LookupFound THEN stdin[Len(stdin)] ELSE stdin[Len(stdin) - 1]))
\* the value of the earliest listed alias of `key` that is a key of d
AliasResolves(d, aliases, key, v) ==
    /\ HasKey(aliases, key)
    /\ \E i \in 1..Len(Get(aliases, key)) :
          /\ HasKey(d, Get(aliases, key)[i])
          /\ \A j \in 1..(i - 1) : ~HasKey(d, Get(aliases, key)[j])
          /\ v = Get(d, Get(aliases, key)[i])
NoAliasPresent(d, aliases, key) ==
    HasKey(aliases, key) => \A i \in 1..Len(Get(aliases, key)) : ~HasKey(d, Get(aliases, key)[i])
\* the outcome `found` with value v, or not found, is what exact-key-first,
\* then aliases in list order, gives for `key` in d
ExactThenAlias(d, aliases, key, found, v) ==
    /\ HasKey(d, key) => found /\ v = Get(d, key)
    /\ (~HasKey(d, key) /\ found) => AliasResolves(d, aliases, key, v)
    /\ ~found => ~HasKey(d, key) /\ NoAliasPresent(d, aliases, key)
    /\ (key = <<"U","S","A">> /\ Keys(d) = {<<"U","N","I","T","E","D"," ","S","T","A","T","E","S">>})
          => found /\ v = Get(d, <<"U","N","I","T","E","D"," ","S","T","A","T","E","S">>)

(***************************************************************************)
(* C12: a country lookup returns the value stored under the exact          *)
(* upper-cased key when the key is in the table, even if an alias is in    *)
(* the table too; only when the key is absent does it try the key's        *)
(* aliases, in list order, and return the value of the first one present:  *)
(* USA resolves to the value of UNITED STATES when only that is present.   *)
(***************************************************************************)
C12_ExactKeyThenAliases ==
    /\ DebtLookupRan =>
          /\ ExactThenAlias(Val(debt.bond_yield_data), CD_country_alternatives, AskedKey,
                            LookupFound, Val(debt.risk_free_rate))
          /\ ret \in {RetTrue, RetFalse}
    /\ BetaLookupRan =>
          /\ ExactThenAlias(Val(beta.bond_yield_data), BC_country_alternatives, AskedKey,
                            LookupFound, ret.v)
          /\ LookupFound => beta.current_risk_free_rate = Some(ret.v)

\* USA asked of a table with UNITED STATES and US only: UNITED STATES, the
\* first alias listed, gave the rate
C12_Witness ==
    /\ DebtLookupRan
    /\ stdin = << <<"u","s","a">> >>
    /\ Keys(Val(debt.bond_yield_data)) =
           {<<"U","N","I","T","E","D"," ","S","T","A","T","E","S">>, <<"U","S">>}
    /\ ret = RetTrue
    /\ debt.risk_free_rate = Some(<<1, 50>>)

(***************************************************************************)
(* C13: for two names A and B of one alias group, {USA, UNITED STATES, US} *)
(* or {UK, UNITED KINGDOM, BRITAIN}, looking up A in a table that holds    *)
(* only B finds B's value.  Violated by US asked of a table that holds     *)
(* only USA: US and BRITAIN have no alias list of their own.               *)
(***************************************************************************)
AliasGroups ==
    { {<<"U","S","A">>, <<"U","N","I","T","E","D"," ","S","T","A","T","E","S">>, <<"U","S">>},
      {<<"U","K">>, <<"U","N","I","T","E","D"," ","K","I","N","G","D","O","M">>,
       <<"B","R","I","T","A","I","N">>} }
OnlyGroupMate(d, key) ==
    \E G \in AliasGroups : \E B \in G : key \in G /\ Keys(d) = {B}

C13_AliasesBidirectional ==
    /\ (DebtLookupRan /\ OnlyGroupMate(Val(debt.bond_yield_data), AskedKey)) =>
          /\ ret = RetTrue
          /\ debt.risk_free_rate = Some(Val(debt.bond_yield_data)[1][2])
    /\ (BetaLookupRan /\ OnlyGroupMate(Val(beta.bond_yield_data), AskedKey)) =>
          /\ LookupFound
          /\ ret.v = Val(beta.bond_yield_data)[1][2]

(***************************************************************************)
(* CostOfDebtCalculator.get_tax_rate and calculate_cost_of_debt.           *)
(***************************************************************************)
\* the highest tax rate accepted, in percent
MaxTaxPercent == 60

\* the prompt loop of get_tax_rate: blank lines, lines float() rejects and
\* percentages outside 0..60 are asked again
RECURSIVE ReadTaxPercent(_)
ReadTaxPercent(lines) ==
    IF Len(lines) = 0 THEN [ok |-> FALSE, v |-> <<0, 1>>, rest |-> <<>>]
    ELSE LET tax_input == Strip(Head(lines))
             tax_percent == ParseFloat(tax_input)
         IN  IF Len(tax_input) = 0 \/ ~tax_percent.ok
             THEN ReadTaxPercent(Tail(lines))
             ELSE IF ~(RLeq(RInt(0), tax_percent.v) /\ RLeq(tax_percent.v, RInt(MaxTaxPercent)))
             THEN ReadTaxPercent(Tail(lines))
             ELSE [ok |-> TRUE, v |-> tax_percent.v, rest |-> Tail(lines)]

get_tax_rate(streams) ==
    /\ op' = "CostOfDebtCalculator.get_tax_rate"
    /\ \E lines \in streams :
          LET r == ReadTaxPercent(lines)
          IN  /\ r.ok /\ Len(r.rest) = 0
              /\ stdin' = lines
              /\ debt' = [debt EXCEPT !.tax_rate = Some(RDiv(r.v, RInt(100)))]
              /\ ret' = RetTrue /\ out' = "marginal tax rate"
    /\ arg' = None
    /\ UNCHANGED <<beta, table_file, ratings_file, wacc>>

\* a cost of debt that subtracts the spread
AfterTaxCost_Minus(risk_free_rate, spread, tax_rate) ==
    RMul(RSub(risk_free_rate, spread), RSub(RInt(1), tax_rate))

\* a cost of debt that grows with the tax rate
AfterTaxCost_TaxAdded(risk_free_rate, spread, tax_rate) ==
    RMul(RAdd(risk_free_rate, spread), RAdd(RInt(1), tax_rate))

\* pre_tax_cost = rf + spread; cost_of_debt = pre_tax_cost * (1 - tax_rate)
AfterTaxCost(risk_free_rate, spread, tax_rate) ==
    RMul(RAdd(risk_free_rate, spread), RSub(RInt(1), tax_rate))

\* any(x is None for x in [self.risk_free_rate, self.spread, self.tax_rate])
MissingDebtInput(self) ==
    IsNone(self.risk_free_rate) \/ IsNone(self.spread) \/ IsNone(self.tax_rate)

calculate_cost_of_debt ==
    /\ op' = "CostOfDebtCalculator.calculate_cost_of_debt"
    /\ IF MissingDebtInput(debt)
       THEN /\ ret' = Ret("None") /\ out' = "missing required data"
            /\ UNCHANGED debt
       ELSE LET cost == AfterTaxCost(Val(debt.risk_free_rate), Val(debt.spread),
                                     Val(debt.tax_rate))
            IN  /\ debt' = [debt EXCEPT !.cost_of_debt = Some(cost)]
                /\ ret' = RetValue(cost) /\ out' = "cost of debt calculation"
    /\ arg' = None
    /\ UNCHANGED <<beta, table_file, ratings_file, stdin, wacc>>

(***************************************************************************)
(* The cost of debt, computed on a grid of inputs.  The risk-free rate and *)
(* the spread are whatever the workbooks hold, fractions outside 0..1      *)
(* included; each of the three inputs may also be unset.                   *)
(***************************************************************************)
RateGrid == {<<-1, 2>>, <<0, 1>>, <<1, 50>>, <<1, 20>>, <<1, 1>>, <<3, 2>>}
SpreadGrid == {<<0, 1>>, <<1, 100>>, <<1, 10>>, <<1, 1>>}
TaxGrid == {<<0, 1>>, <<1, 4>>, <<3, 5>>, <<1, 1>>}
Optional(S) == {None} \cup {Some(x) : x \in S}

TaxStreams ==
    { << <<"2","5">> >>,
      << <<"0">> >>,
      << <<"6","0">> >>,
      << <<>>, <<"x">>, <<"6","1">>, <<"-","1">>, <<" ","2","1"," ">> >> }

CostOfDebtCalculator_get_tax_rate == get_tax_rate(TaxStreams)

InitCostOfDebt ==
    /\ \E rf \in Optional(RateGrid), s \in Optional(SpreadGrid), t \in Optional(TaxGrid) :
          debt = [CostOfDebtCalculator_init EXCEPT
                     !.risk_free_rate = rf, !.spread = s, !.tax_rate = t]
    /\ beta = BetaCalculator_init
    /\ table_file = MissingFile
    /\ ratings_file = MissingRatingsFile
    /\ op = "__init__"
    /\ ret = Ret("None")
    /\ out = ""
    /\ stdin = <<>>
    /\ wacc = WACCCalculator_init
    /\ arg = None

NextCostOfDebt ==
    \/ CostOfDebtCalculator_get_tax_rate
    \/ calculate_cost_of_debt

SpecCostOfDebt == InitCostOfDebt /\ [][NextCostOfDebt]_vars

(***************************************************************************)
(* C14: calculate_cost_of_debt returns and stores                          *)
(* (risk_free_rate + spread) * (1 - tax_rate), whatever the inputs are     *)
(* (no clamping); with any of the three inputs unset it returns None and   *)
(* leaves the calculator, the stored cost_of_debt included, as it was.     *)
(***************************************************************************)
\* v = (rf + s) * (1 - t), on fractions
IsAfterTaxCost(v, rf, s, t) ==
    v[1] * (rf[2] * s[2] * t[2]) = (rf[1] * s[2] + s[1] * rf[2]) * (t[2] - t[1]) * v[2]

C14_CostOfDebtFormula ==
    [][ op' = "CostOfDebtCalculator.calculate_cost_of_debt" =>
          IF ~IsNone(debt.risk_free_rate) /\ ~IsNone(debt.spread) /\ ~IsNone(debt.tax_rate)
          THEN /\ ret'.k = "value"
               /\ IsAfterTaxCost(ret'.v, Val(debt.risk_free_rate), Val(debt.spread),
                                 Val(debt.tax_rate))
               /\ debt' = [debt EXCEPT !.cost_of_debt = Some(ret'.v)]
          ELSE ret' = Ret("None") /\ debt' = debt
      ]_vars

\* a risk-free rate of 150% and a spread of 10% at a tax rate of 25% give
\* 120%: nothing was clamped
C14_Witness ==
    /\ op = "CostOfDebtCalculator.calculate_cost_of_debt"
    /\ debt.risk_free_rate = Some(<<3, 2>>)
    /\ debt.spread = Some(<<1, 10>>)
    /\ debt.tax_rate = Some(<<1, 4>>)
    /\ debt.cost_of_debt = Some(<<6, 5>>)
    /\ ret = RetValue(<<6, 5>>)

(***************************************************************************)
(* C15: for rf, spread and tax in 0..1 the cost of debt does not fall when *)
(* rf or the spread rises and does not rise when the tax rate rises.       *)
(***************************************************************************)
UnitGrid(S) == {x \in S : 0 <= x[1] /\ x[1] <= x[2]}
InUnit(o) == ~IsNone(o) /\ 0 <= Val(o)[1] /\ Val(o)[1] <= Val(o)[2]
CostComputed ==
    /\ op = "CostOfDebtCalculator.calculate_cost_of_debt"
    /\ ret.k = "value"
    /\ InUnit(debt.risk_free_rate) /\ InUnit(debt.spread) /\ InUnit(debt.tax_rate)

C15_CostOfDebtMonotone ==
    CostComputed =>
        LET rf == Val(debt.risk_free_rate)
            s == Val(debt.spread)
            t == Val(debt.tax_rate)
        IN  /\ \A rf2 \in UnitGrid(RateGrid) :
                  RLeq(rf, rf2) => RLeq(ret.v, AfterTaxCost(rf2, s, t))
            /\ \A s2 \in UnitGrid(SpreadGrid) :
                  RLeq(s, s2) => RLeq(ret.v, AfterTaxCost(rf, s2, t))
            /\ \A t2 \in UnitGrid(TaxGrid) :
                  RLeq(t, t2) => RLeq(AfterTaxCost(rf, s, t2), ret.v)

\* 5% + 1% at 25% tax is 4.5%: below the 11.25% of a 10% spread and above
\* the 2.4% of a 60% tax rate
C15_Witness ==
    /\ CostComputed
    /\ debt.risk_free_rate = Some(<<1, 20>>)
    /\ debt.spread = Some(<<1, 100>>)
    /\ debt.tax_rate = Some(<<1, 4>>)
    /\ ret.v = <<9, 200>>
    /\ RLt(ret.v, AfterTaxCost(<<1, 20>>, <<1, 10>>, <<1, 4>>))
    /\ RLt(AfterTaxCost(<<1, 20>>, <<1, 100>>, <<3, 5>>), ret.v)

(***************************************************************************)
(* BetaCalculator.get_manual_equity_risk_premium and                       *)
(* calculate_cost_of_equity.                                               *)
(***************************************************************************)
\* the highest equity risk premium accepted, in percent
MaxErpPercent == 25

\* the prompt loop of get_manual_equity_risk_premium
RECURSIVE ReadErpPercent(_)
ReadErpPercent(lines) ==
    IF Len(lines) = 0 THEN [ok |-> FALSE, v |-> <<0, 1>>, rest |-> <<>>]
    ELSE LET erp_input == Strip(Head(lines))
             erp_percent == ParseFloat(erp_input)
         IN  IF Len(erp_input) = 0 \/ ~erp_percent.ok
             THEN ReadErpPercent(Tail(lines))
             ELSE IF ~(RLeq(RInt(0), erp_percent.v) /\ RLeq(erp_percent.v, RInt(MaxErpPercent)))
             THEN ReadErpPercent(Tail(lines))
             ELSE [ok |-> TRUE, v |-> erp_percent.v, rest |-> Tail(lines)]

get_manual_equity_risk_premium(streams) ==
    /\ op' = "BetaCalculator.get_manual_equity_risk_premium"
    /\ \E lines \in streams :
          LET r == ReadErpPercent(lines)
          IN  /\ r.ok /\ Len(r.rest) = 0
              /\ stdin' = lines
              /\ beta' = [beta EXCEPT !.equity_risk_premium = Some(RDiv(r.v, RInt(100)))]
              /\ ret' = RetValue(RDiv(r.v, RInt(100)))
              /\ out' = "equity risk premium set"
    /\ arg' = None
    /\ UNCHANGED <<debt, table_file, ratings_file, wacc>>

\* a premium choice that prefers the stored premium
UsedPremium_StoredFirst(self, market_risk_premium) ==
    IF IsNone(self.equity_risk_premium) THEN market_risk_premium
    ELSE self.equity_risk_premium

\* `if market_risk_premium is None: market_risk_premium = self.equity_risk_premium`
UsedPremium(self, market_risk_premium) ==
    IF IsNone(market_risk_premium) THEN self.equity_risk_premium
    ELSE market_risk_premium

\* self.current_risk_free_rate + self.beta * market_risk_premium
Capm(risk_free_rate, b, market_risk_premium) ==
    RAdd(risk_free_rate, RMul(b, market_risk_premium))

\* calculate_cost_of_equity(market_risk_premium=None)
calculate_cost_of_equity(premiums) ==
    /\ op' = "BetaCalculator.calculate_cost_of_equity"
    /\ \E market_risk_premium \in premiums :
          /\ arg' = market_risk_premium
          /\ IF IsNone(beta.beta) \/ IsNone(beta.current_risk_free_rate)
             THEN ret' = Ret("None") /\ out' = "beta and risk-free rate required"
             ELSE IF IsNone(UsedPremium(beta, market_risk_premium))
             THEN ret' = Ret("None") /\ out' = "premium must be provided"
             ELSE /\ ret' = RetValue(Capm(Val(beta.current_risk_free_rate), Val(beta.beta),
                                          Val(UsedPremium(beta, market_risk_premium))))
                  /\ out' = "cost of equity"
    /\ UNCHANGED <<debt, beta, table_file, ratings_file, stdin, wacc>>

(***************************************************************************)
(* The cost of equity, computed on a grid of inputs; each input may be     *)
(* unset.                                                                  *)
(***************************************************************************)
BetaGrid == {<<-1, 2>>, <<0, 1>>, <<1, 1>>, <<3, 2>>, <<5, 1>>}
YieldGrid == {<<0, 1>>, <<1, 20>>}
PremiumGrid == {<<0, 1>>, <<1, 20>>, <<1, 4>>}

ErpStreams ==
    { << <<"6",".","5">> >>,
      << <<"0">> >>,
      << <<>>, <<"x">>, <<"2","6">>, <<"-","1">>, <<" ","2","5"," ">> >> }

BetaCalculator_get_manual_equity_risk_premium == get_manual_equity_risk_premium(ErpStreams)
BetaCalculator_calculate_cost_of_equity == calculate_cost_of_equity(Optional(PremiumGrid))

InitCostOfEquity ==
    /\ debt = CostOfDebtCalculator_init
    /\ \E b \in Optional(BetaGrid), rf \in Optional(YieldGrid), p \in Optional(PremiumGrid) :
          beta = [BetaCalculator_init EXCEPT
                     !.beta = b, !.current_risk_free_rate = rf, !.avg_risk_free_rate = rf,
                     !.equity_risk_premium = p]
    /\ table_file = MissingFile
    /\ ratings_file = MissingRatingsFile
    /\ op = "__init__"
    /\ ret = Ret("None")
    /\ out = ""
    /\ stdin = <<>>
    /\ wacc = WACCCalculator_init
    /\ arg = None

NextCostOfEquity ==
    \/ BetaCalculator_get_manual_equity_risk_premium
    \/ BetaCalculator_calculate_cost_of_equity

SpecCostOfEquity == InitCostOfEquity /\ [][NextCostOfEquity]_vars

(***************************************************************************)
(* C16: calculate_cost_of_equity returns risk_free_rate + beta * premium,  *)
(* beta taken as it is, so that a negative beta with a positive premium    *)
(* gives a cost strictly below the risk-free rate; the premium is the one  *)
(* passed to the call and the stored one only when none is passed.         *)
(***************************************************************************)
\* v = rf + b * p, on fractions
IsCapm(v, rf, b, p) ==
    v[1] * (rf[2] * b[2] * p[2]) = (rf[1] * b[2] * p[2] + b[1] * p[1] * rf[2]) * v[2]

C16_CostOfEquityFormula ==
    (op = "BetaCalculator.calculate_cost_of_equity"
        /\ ~IsNone(beta.beta) /\ ~IsNone(beta.current_risk_free_rate)) =>
        LET rf == Val(beta.current_risk_free_rate)
            b == Val(beta.beta)
        IN  /\ ~IsNone(arg) =>
                  /\ ret.k = "value"
                  /\ IsCapm(ret.v, rf, b, Val(arg))
                  /\ (b[1] < 0 /\ Val(arg)[1] > 0) => RLt(ret.v, rf)
            /\ (IsNone(arg) /\ ~IsNone(beta.equity_risk_premium)) =>
                  /\ ret.k = "value"
                  /\ IsCapm(ret.v, rf, b, Val(beta.equity_risk_premium))
                  /\ (b[1] < 0 /\ Val(beta.equity_risk_premium)[1] > 0) => RLt(ret.v, rf)
            /\ (IsNone(arg) /\ IsNone(beta.equity_risk_premium)) => ret = Ret("None")

\* beta -0.5 at a risk-free rate of 5%: the premium of 25% passed to the
\* call, not the stored 5%, gives -7.5%, below the risk-free rate
C16_Witness ==
    /\ op = "BetaCalculator.calculate_cost_of_equity"
    /\ beta.beta = Some(<<-1, 2>>)
    /\ beta.current_risk_free_rate = Some(<<1, 20>>)
    /\ beta.equity_risk_premium = Some(<<1, 20>>)
    /\ arg = Some(<<1, 4>>)
    /\ ret = RetValue(<<-3, 40>>)

(***************************************************************************)
(* WACCCalculator (src/WACC.py).  Money is kept in currency units, as the  *)
(* code keeps it: amounts typed in millions are multiplied by 1,000,000.   *)
(***************************************************************************)
MaxEquityPercent == 50
MaxDebtPercent == 30

\* one cost prompt: blank lines, lines float() rejects and percentages
\* outside 0..max_percent are asked again
RECURSIVE ReadCostPercent(_, _)
ReadCostPercent(lines, max_percent) ==
    IF Len(lines) = 0 THEN [ok |-> FALSE, v |-> <<0, 1>>, rest |-> <<>>]
    ELSE LET cost_input == Strip(Head(lines))
             percent == ParseFloat(cost_input)
         IN  IF Len(cost_input) = 0 \/ ~percent.ok
             THEN ReadCostPercent(Tail(lines), max_percent)
             ELSE IF ~(RLeq(RInt(0), percent.v) /\ RLeq(percent.v, RInt(max_percent)))
             THEN ReadCostPercent(Tail(lines), max_percent)
             ELSE [ok |-> TRUE, v |-> percent.v, rest |-> Tail(lines)]

get_cost_inputs(streams) ==
    /\ op' = "WACCCalculator.get_cost_inputs"
    /\ \E lines \in streams :
          LET equity_percent == ReadCostPercent(lines, MaxEquityPercent)
              debt_percent == ReadCostPercent(equity_percent.rest, MaxDebtPercent)
          IN  /\ equity_percent.ok /\ debt_percent.ok /\ Len(debt_percent.rest) = 0
              /\ stdin' = lines
              /\ wacc' = [wacc EXCEPT
                             !.cost_of_equity = Some(RDiv(equity_percent.v, RInt(100))),
                             !.cost_of_debt = Some(RDiv(debt_percent.v, RInt(100)))]
              /\ ret' = RetTrue /\ out' = "Cost of Debt"
    /\ arg' = None
    /\ UNCHANGED <<debt, beta, table_file, ratings_file>>

\* yf.Ticker(ticker).info on the day of the run: two listed companies, one
\* symbol whose record has no market capitalisation, nothing for the rest
yfTicker(ticker) ==
    CASE ticker = <<"A","B","C">> -> Info(Some(30), None, None)
      [] ticker = <<"X","Y">> -> Info(Some(10), None, None)
      [] ticker = <<"N","O","C","A","P">> -> Info(None, None, None)
      [] OTHER -> EmptyInfo

\* the ticker prompt: a blank line, a symbol without data and a symbol
\* without a market capitalisation are asked again
RECURSIVE ReadTicker(_)
ReadTicker(lines) ==
    IF Len(lines) = 0
    THEN [ok |-> FALSE, ticker |-> <<>>, info |-> EmptyInfo, rest |-> <<>>]
    ELSE LET ticker_input == Strip(Head(lines))
             ticker == Upper(ticker_input)
             company_info == yfTicker(ticker)
         IN  IF Len(ticker_input) = 0 THEN ReadTicker(Tail(lines))
             ELSE IF company_info.empty THEN ReadTicker(Tail(lines))
             ELSE IF IsNone(company_info.marketCap) THEN ReadTicker(Tail(lines))
             ELSE [ok |-> TRUE, ticker |-> ticker, info |-> company_info,
                   rest |-> Tail(lines)]

\* a maturity test that lets zero through
ValidMaturity_ZeroToo(debt_maturity) == RLeq(RInt(0), debt_maturity)

\* `if self.debt_maturity <= 0: ... continue`
ValidMaturity(debt_maturity) == RLt(RInt(0), debt_maturity)

\* the maturity prompt: blank lines, lines float() rejects and maturities
\* that are not above zero are asked again; `refused` tells whether
\* "Maturity must be greater than 0." was printed
RECURSIVE ReadMaturity(_, _)
ReadMaturity(lines, refused) ==
    IF Len(lines) = 0 THEN [ok |-> FALSE, v |-> <<0, 1>>, rest |-> <<>>, refused |-> refused]
    ELSE LET maturity_input == Strip(Head(lines))
             debt_maturity == ParseFloat(maturity_input)
         IN  IF Len(maturity_input) = 0 \/ ~debt_maturity.ok
             THEN ReadMaturity(Tail(lines), refused)
             ELSE IF ~ValidMaturity(debt_maturity.v)
             THEN ReadMaturity(Tail(lines), TRUE)
             ELSE [ok |-> TRUE, v |-> debt_maturity.v, rest |-> Tail(lines),
                   refused |-> refused]

\* base ** n for a whole number n
RECURSIVE RPow(_, _)
RPow(base, n) == IF n = 0 THEN RInt(1) ELSE RMul(base, RPow(base, n - 1))

\* base ** exponent; every maturity this model types is a whole number of
\* years, a fractional power has no exact fraction
Power(base, exponent) == RPow(base, exponent[1] \div exponent[2])

\* a market value of debt without the division of the interest term
MarketValueOfDebt_NoDivision(interest_expense, book_debt, cost_of_debt, debt_maturity) ==
    LET pv_interest ==
            RMul(interest_expense,
                 RSub(RInt(1), RDiv(RInt(1), RAdd(RInt(1), cost_of_debt))))
        pv_principal == RDiv(book_debt, Power(RAdd(RInt(1), cost_of_debt), debt_maturity))
    IN  RAdd(pv_interest, pv_principal)

\* pv_interest + pv_principal, for a cost of debt that is not zero
MarketValueOfDebt(interest_expense, book_debt, cost_of_debt, debt_maturity) ==
    LET pv_interest ==
            RDiv(RMul(interest_expense,
                      RSub(RInt(1), RDiv(RInt(1), RAdd(RInt(1), cost_of_debt)))),
                 cost_of_debt)
        pv_principal == RDiv(book_debt, Power(RAdd(RInt(1), cost_of_debt), debt_maturity))
    IN  RAdd(pv_interest, pv_principal)

\* what the four prompts of get_market_values read from the lines typed
MarketEntries(lines) ==
    LET t == ReadTicker(lines)
        d == ReadFloat(t.rest)
        m == ReadMaturity(d.rest, FALSE)
        i == ReadFloat(m.rest)
    IN  [ok |-> t.ok /\ d.ok /\ m.ok /\ i.ok /\ Len(i.rest) = 0,
         ticker |-> t.ticker, info |-> t.info,
         book_debt |-> RMul(d.v, RInt(Million)),
         debt_maturity |-> m.v, refused |-> m.refused,
         interest_expense |-> RMul(i.v, RInt(Million))]

\* the attributes with the step's "final values" stored before the debt is valued
Entered_FinalValuesFirst(w, e) ==
    [w EXCEPT
        !.ticker = Some(e.ticker),
        !.company_info = Some(e.info),
        !.market_value_equity = Some(RInt(Val(e.info.marketCap))),
        !.debt_maturity = Some(e.debt_maturity),
        !.interest_expense = Some(e.interest_expense),
        !.equity_value = Some(RInt(Val(e.info.marketCap)))]

\* the attributes the prompts have assigned when the last prompt is answered
Entered(w, e) ==
    [w EXCEPT
        !.ticker = Some(e.ticker),
        !.company_info = Some(e.info),
        !.market_value_equity = Some(RInt(Val(e.info.marketCap))),
        !.debt_maturity = Some(e.debt_maturity),
        !.interest_expense = Some(e.interest_expense)]

\* `1 + self.cost_of_debt` raises TypeError on None and the division by a
\* cost of debt of 0 raises ZeroDivisionError: both leave the method before
\* market_value_debt, equity_value and debt_value are assigned
get_market_values(streams) ==
    /\ op' = "WACCCalculator.get_market_values"
    /\ \E lines \in streams :
          LET e == MarketEntries(lines)
              entered == Entered(wacc, e)
          IN  /\ e.ok
              /\ stdin' = lines
              /\ out' = IF e.refused THEN "Maturity must be greater than 0."
                                     ELSE "Calculating market value of debt..."
              /\ IF IsNone(wacc.cost_of_debt)
                 THEN wacc' = entered /\ ret' = Raise("TypeError")
                 ELSE IF Val(wacc.cost_of_debt)[1] = 0
                 THEN wacc' = entered /\ ret' = Raise("ZeroDivisionError")
                 ELSE LET market_value_debt ==
                              MarketValueOfDebt(e.interest_expense, e.book_debt,
                                                Val(wacc.cost_of_debt), e.debt_maturity)
                      IN  /\ wacc' = [entered EXCEPT
                                         !.market_value_debt = Some(market_value_debt),
                                         !.equity_value = entered.market_value_equity,
                                         !.debt_value = Some(market_value_debt)]
                          /\ ret' = RetTrue
    /\ arg' = None
    /\ UNCHANGED <<debt, beta, table_file, ratings_file>>

get_book_values(streams) ==
    /\ op' = "WACCCalculator.get_book_values"
    /\ \E lines \in streams :
          LET equity == ReadFloat(lines)
              book_debt == ReadFloat(equity.rest)
              book_value_equity == RMul(equity.v, RInt(Million))
              book_value_debt == RMul(book_debt.v, RInt(Million))
          IN  /\ equity.ok /\ book_debt.ok /\ Len(book_debt.rest) = 0
              /\ stdin' = lines
              /\ wacc' = [wacc EXCEPT
                             !.book_value_equity = Some(book_value_equity),
                             !.book_value_debt = Some(book_value_debt),
                             !.equity_value = Some(book_value_equity),
                             !.debt_value = Some(book_value_debt)]
              /\ ret' = RetTrue /\ out' = "Book Value of Debt"
    /\ arg' = None
    /\ UNCHANGED <<debt, beta, table_file, ratings_file>>

\* `any(x is None for x in [...])`
MissingWaccInput(w) ==
    \/ IsNone(w.cost_of_equity) \/ IsNone(w.cost_of_debt)
    \/ IsNone(w.equity_value) \/ IsNone(w.debt_value)

\* weights taken of the equity value alone
Weight_OverEquity(value, equity_value, total_value) == RDiv(value, equity_value)

\* value / total_value
Weight(value, equity_value, total_value) == RDiv(value, total_value)

\* a weighted cost that leaves the debt term out
WeightedCost_EquityOnly(cost_of_equity, weight_equity, cost_of_debt, weight_debt) ==
    RMul(cost_of_equity, weight_equity)

\* (cost_of_equity * weight_equity) + (cost_of_debt * weight_debt)
WeightedCost(cost_of_equity, weight_equity, cost_of_debt, weight_debt) ==
    RAdd(RMul(cost_of_equity, weight_equity), RMul(cost_of_debt, weight_debt))

\* a total of zero stops at the first division, after total_value was stored
calculate_wacc ==
    /\ op' = "WACCCalculator.calculate_wacc"
    /\ IF MissingWaccInput(wacc)
       THEN /\ ret' = Ret("None") /\ out' = "Missing required data for WACC calculation"
            /\ UNCHANGED wacc
       ELSE LET equity_value == Val(wacc.equity_value)
                debt_value == Val(wacc.debt_value)
                total_value == RAdd(equity_value, debt_value)
            IN  IF total_value[1] = 0
                THEN /\ wacc' = [wacc EXCEPT !.total_value = Some(total_value)]
                     /\ ret' = Raise("ZeroDivisionError") /\ out' = ""
                ELSE LET weight_equity == Weight(equity_value, equity_value, total_value)
                         weight_debt == Weight(debt_value, equity_value, total_value)
                         result == WeightedCost(Val(wacc.cost_of_equity), weight_equity,
                                                Val(wacc.cost_of_debt), weight_debt)
                     IN  /\ wacc' = [wacc EXCEPT
                                        !.total_value = Some(total_value),
                                        !.weight_equity = Some(weight_equity),
                                        !.weight_debt = Some(weight_debt),
                                        !.wacc = Some(result)]
                         /\ ret' = RetValue(result) /\ out' = "WACC CALCULATION"
    /\ arg' = None
    /\ UNCHANGED <<debt, beta, table_file, ratings_file, stdin>>

(***************************************************************************)
(* The calculator driven from the keyboard.  The amounts typed are small   *)
(* (a few units of currency) so that every fraction stays exact.          *)
(***************************************************************************)
CostStreams ==
    { << <<"1","0">>, <<"0">> >>,
      << <<"1","2",".","5">>, <<"2","5">> >>,
      << <<>>, <<"x">>, <<"5","1">>, <<"-","1">>, <<" ","5","0"," ">>, <<"3","1">>, <<"3","0">> >> }

MarketStreams ==
    { << <<"a","b","c">>, <<"0",".","0","0","0","0","1">>, <<"1">>, <<"0",".","0","0","0","0","0","1">> >>,
      << <<"a","b","c">>, <<"0",".","0","0","0","0","1">>, <<"2">>, <<"0",".","0","0","0","0","0","1">> >>,
      << <<"x","y">>, <<"0",".","0","0","0","0","2">>, <<"1">>, <<"0">> >>,
      << <<>>, <<"b","a","d">>, <<"n","o","c","a","p">>, <<" ","x","y"," ">>, <<"x">>, <<"0",".","0","0","0","0","1">>,
         <<"0">>, <<"-","1">>, <<"2">>, <<>>, <<"0",".","0","0","0","0","0","1">> >> }

BookStreams ==
    { << <<"0",".","0","0","0","0","3">>, <<"0",".","0","0","0","0","1">> >>,
      << <<"0">>, <<"0">> >>,
      << <<>>, <<"x">>, <<"0",".","0","0","0","0","1">>, <<"?">>, <<"-","0",".","0","0","0","0","2">> >> }

WACCCalculator_get_cost_inputs == get_cost_inputs(CostStreams)
WACCCalculator_get_market_values == get_market_values(MarketStreams)
WACCCalculator_get_book_values == get_book_values(BookStreams)
WACCCalculator_calculate_wacc == calculate_wacc

InitWacc ==
    /\ debt = CostOfDebtCalculator_init
    /\ beta = BetaCalculator_init
    /\ table_file = MissingFile
    /\ ratings_file = MissingRatingsFile
    /\ op = "__init__"
    /\ ret = Ret("None")
    /\ out = ""
    /\ stdin = <<>>
    /\ wacc = WACCCalculator_init
    /\ arg = None

\* the market-value path: the costs, then the market values, any number of
\* times and in any order
NextMarketValues ==
    \/ WACCCalculator_get_cost_inputs
    \/ WACCCalculator_get_market_values

SpecMarketValues == InitWacc /\ [][NextMarketValues]_vars

\* the whole calculator, with one company on the market-value path
PipelineMarketStreams == { << <<"a","b","c">>, <<"0",".","0","0","0","0","1">>, <<"2">>, <<"0",".","0","0","0","0","0","1">> >> }
Pipeline_get_market_values == get_market_values(PipelineMarketStreams)

NextWacc ==
    \/ WACCCalculator_get_cost_inputs
    \/ Pipeline_get_market_values
    \/ WACCCalculator_get_book_values
    \/ WACCCalculator_calculate_wacc

SpecWacc == InitWacc /\ [][NextWacc]_vars
(***************************************************************************)
(* C17: after get_market_values has returned, market_value_debt is         *)
(* interest_expense * (1 - 1/(1 + cost_of_debt)) / cost_of_debt            *)
(* + book_debt / (1 + cost_of_debt) ** maturity, the interest term is the  *)
(* same for every maturity (it is interest_expense / (1 + cost_of_debt)),  *)
(* and debt_value is that sum, equity_value the market capitalisation.     *)
(***************************************************************************)
MarketStepReturned ==
    /\ op = "WACCCalculator.get_market_values"
    /\ ret = RetTrue

C17_MarketValueOfDebt ==
    MarketStepReturned =>
        LET c == Val(wacc.cost_of_debt)
            ie == Val(wacc.interest_expense)
            bd == MarketEntries(stdin).book_debt
            n == Val(wacc.debt_maturity)
            pv_interest == RDiv(RMul(ie, RSub(RInt(1), RDiv(RInt(1), RAdd(RInt(1), c)))), c)
            pv_principal == RDiv(bd, Power(RAdd(RInt(1), c), n))
        IN  /\ wacc.market_value_debt = Some(RAdd(pv_interest, pv_principal))
            /\ RMul(pv_interest, RAdd(RInt(1), c)) = ie
            /\ wacc.debt_value = wacc.market_value_debt
            /\ wacc.equity_value = wacc.market_value_equity

\* a debt of 10 due in 2 years with an interest of 1, at a cost of debt of
\* 25%: 1 * (1 - 1/1.25) / 0.25 + 10 / 1.25 ** 2 = 0.8 + 6.4
C17_Witness ==
    /\ MarketStepReturned
    /\ wacc.cost_of_debt = Some(<<1, 4>>)
    /\ wacc.interest_expense = Some(<<1, 1>>)
    /\ wacc.debt_maturity = Some(<<2, 1>>)
    /\ wacc.market_value_debt = Some(<<36, 5>>)
    /\ wacc.debt_value = Some(<<36, 5>>)

(***************************************************************************)
(* C18 as stated: a call of get_market_values made with a cost of debt of  *)
(* 0, or in which a maturity of zero or less was typed, ends in a failure, *)
(* and that call leaves market_value_debt, equity_value and debt_value as  *)
(* they were.                                                              *)
(***************************************************************************)
C18_ZeroCostOrMaturityFails ==
    [][ (/\ op' = "WACCCalculator.get_market_values"
         /\ \/ wacc.cost_of_debt = Some(<<0, 1>>)
            \/ MarketEntries(stdin').refused)
        => /\ ret'.k # "True"
           /\ wacc'.market_value_debt = wacc.market_value_debt
           /\ wacc'.equity_value = wacc.equity_value
           /\ wacc'.debt_value = wacc.debt_value
      ]_vars

(***************************************************************************)
(* C18, amended: get_market_values returns a value exactly when the cost   *)
(* of debt is set and above zero, and then the maturity it used is above   *)
(* zero (a maturity of zero or less is refused at the prompt and asked     *)
(* again, it is no failure); with a cost of debt of 0 it raises            *)
(* ZeroDivisionError and with no cost of debt TypeError, and a call that   *)
(* raises leaves market_value_debt, equity_value and debt_value as they    *)
(* were, having stored the ticker, the market capitalisation, the maturity *)
(* and the interest expense.                                               *)
(***************************************************************************)
C18_MarketValuePreconditions ==
    [][ op' = "WACCCalculator.get_market_values" =>
          LET e == MarketEntries(stdin')
          IN  /\ ret'.k = (IF IsNone(wacc.cost_of_debt) THEN "TypeError"
                           ELSE IF Val(wacc.cost_of_debt)[1] = 0 THEN "ZeroDivisionError"
                           ELSE "True")
              /\ Val(wacc'.debt_maturity)[1] > 0
              /\ ret'.k = "True" => Val(wacc.cost_of_debt)[1] > 0
              /\ ret'.k # "True" =>
                    /\ wacc'.market_value_debt = wacc.market_value_debt
                    /\ wacc'.equity_value = wacc.equity_value
                    /\ wacc'.debt_value = wacc.debt_value
                    /\ wacc'.market_value_equity = Some(RInt(Val(e.info.marketCap)))
                    /\ wacc'.ticker = Some(e.ticker)
                    /\ wacc'.debt_maturity = Some(e.debt_maturity)
                    /\ wacc'.interest_expense = Some(e.interest_expense)
      ]_vars

\* the costs typed as 10% and 0%, then the market values with the maturities
\* 0 and -1 refused before 2 is taken: the division by zero, nothing valued
C18_Witness ==
    /\ op = "WACCCalculator.get_market_values"
    /\ ret = Raise("ZeroDivisionError")
    /\ out = "Maturity must be greater than 0."
    /\ wacc.cost_of_debt = Some(<<0, 1>>)
    /\ wacc.debt_maturity = Some(<<2, 1>>)
    /\ wacc.market_value_equity = Some(<<10, 1>>)
    /\ wacc.market_value_debt = None
    /\ wacc.equity_value = None
    /\ wacc.debt_value = None

(***************************************************************************)
(* C19: with the four inputs set and a total that is not zero,             *)
(* calculate_wacc stores total_value = equity_value + debt_value,          *)
(* weight_equity = equity_value / total_value, weight_debt = debt_value /  *)
(* total_value, and returns and stores cost_of_equity * weight_equity +    *)
(* cost_of_debt * weight_debt.                                             *)
(***************************************************************************)
WaccComputable ==
    /\ op = "WACCCalculator.calculate_wacc"
    /\ ~IsNone(wacc.cost_of_equity) /\ ~IsNone(wacc.cost_of_debt)
    /\ ~IsNone(wacc.equity_value) /\ ~IsNone(wacc.debt_value)
    /\ RAdd(Val(wacc.equity_value), Val(wacc.debt_value)) # RInt(0)

C19_WaccFormula ==
    WaccComputable =>
        LET ev == Val(wacc.equity_value)
            dv == Val(wacc.debt_value)
            tv == Val(wacc.total_value)
            we == Val(wacc.weight_equity)
            wd == Val(wacc.weight_debt)
        IN  /\ ret.k = "value"
            /\ tv = RAdd(ev, dv)
            /\ RMul(we, tv) = ev
            /\ RMul(wd, tv) = dv
            /\ ret.v = RAdd(RMul(Val(wacc.cost_of_equity), we),
                            RMul(Val(wacc.cost_of_debt), wd))
            /\ wacc.wacc = Some(ret.v)

\* an equity of 30 and a market value of debt of 7.2 at costs of 12.5% and
\* 25%: weights 25/31 and 6/31, a WACC of 37/248
C19_Witness ==
    /\ WaccComputable
    /\ wacc.equity_value = Some(<<30, 1>>)
    /\ wacc.debt_value = Some(<<36, 5>>)
    /\ wacc.total_value = Some(<<186, 5>>)
    /\ wacc.weight_equity = Some(<<25, 31>>)
    /\ wacc.weight_debt = Some(<<6, 31>>)
    /\ ret = RetValue(<<37, 248>>)

(***************************************************************************)
(* C20: when calculate_wacc has run on an equity value and a debt value    *)
(* that are both above zero, the two weights add up to 1 and each lies     *)
(* strictly between 0 and 1.                                               *)
(***************************************************************************)
PositiveValues ==
    /\ WaccComputable
    /\ Val(wacc.equity_value)[1] > 0
    /\ Val(wacc.debt_value)[1] > 0

C20_WeightsSumToOne ==
    PositiveValues =>
        LET we == Val(wacc.weight_equity)
            wd == Val(wacc.weight_debt)
        IN  /\ we[1] * wd[2] + wd[1] * we[2] = we[2] * wd[2]
            /\ 0 < we[1] /\ we[1] < we[2]
            /\ 0 < wd[1] /\ wd[1] < wd[2]

\* book values of 30 and 10: weights 3/4 and 1/4
C20_Witness ==
    /\ PositiveValues
    /\ wacc.equity_value = Some(<<30, 1>>)
    /\ wacc.debt_value = Some(<<10, 1>>)
    /\ wacc.weight_equity = Some(<<3, 4>>)
    /\ wacc.weight_debt = Some(<<1, 4>>)

(***************************************************************************)
(* C21: calculate_wacc called with one of the four inputs unset, or with   *)
(* equity_value + debt_value at zero or below, produces no WACC and leaves *)
(* total_value, the two weights and wacc as they were.                     *)
(***************************************************************************)
C21_MissingOrInvalidTotalFails ==
    [][ (/\ op' = "WACCCalculator.calculate_wacc"
         /\ \/ MissingWaccInput(wacc)
            \/ RLeq(RAdd(Val(wacc.equity_value), Val(wacc.debt_value)), RInt(0)))
        => /\ ret'.k # "value"
           /\ wacc'.total_value = wacc.total_value
           /\ wacc'.weight_equity = wacc.weight_equity
           /\ wacc'.weight_debt = wacc.weight_debt
           /\ wacc'.wacc = wacc.wacc
      ]_vars

(***************************************************************************)
(* Beta estimation (src/CostofEquity.py).  Prices lie on a geometric grid: *)
(* a price is written as its exponent k and stands for G ** k, so that     *)
(* np.log(p / p.shift(1)) is the difference of two exponents, in units of  *)
(* ln G; a missing price is NaN.  A frame has one row per timestamp, with  *)
(* an adjusted close and a close, and the columns the download delivered.  *)
(***************************************************************************)
PriceRow(t, adj, close) == [t |-> t, adj |-> adj, close |-> close]
Frame(cols, rows) == [cols |-> cols, rows |-> rows]

\* numpy floats that are not numbers: nan, inf and -inf
FloatNaN == <<0, 0>>
FloatInf(sign) == <<sign, 0>>
IsFinite(x) == x[2] # 0
Sign(n) == IF n > 0 THEN 1 ELSE IF n < 0 THEN -1 ELSE 0

\* numpy's float64 division: x / 0 is nan for x = 0 and +-inf otherwise
FDiv(a, b) ==
    IF ~IsFinite(a) \/ ~IsFinite(b) THEN FloatNaN
    ELSE IF b[1] = 0 THEN (IF a[1] = 0 THEN FloatNaN ELSE FloatInf(Sign(a[1])))
    ELSE RDiv(a, b)
FMul(a, b) == IF ~IsFinite(a) \/ ~IsFinite(b) THEN FloatNaN ELSE RMul(a, b)
FSub(a, b) == IF ~IsFinite(a) \/ ~IsFinite(b) THEN FloatNaN ELSE RSub(a, b)

\* sign * sqrt(sq), for a fraction sq >= 0: a root is kept as what it is the
\* root of; nan and +-inf are roots of nan and of inf
Surd(sign, sq) == [sign |-> sign, sq |-> sq]
SurdNaN == Surd(0, FloatNaN)
SurdInf(sign) == Surd(sign, FloatInf(1))
IsNumber(root) == IsFinite(root.sq)
\* np.sqrt of a float64: nan stays nan
FSqrt(x) == IF ~IsFinite(x) THEN SurdNaN ELSE Surd(Sign(x[1]), x)

\* get_close_price: 'Adj Close' first, then 'Close', else KeyError
HasClosePrice(data) == "Adj Close" \in data.cols \/ "Close" \in data.cols
get_close_price(data) ==
    IF "Adj Close" \in data.cols
    THEN [i \in 1..Len(data.rows) |-> <<data.rows[i].t, data.rows[i].adj>>]
    ELSE [i \in 1..Len(data.rows) |-> <<data.rows[i].t, data.rows[i].close>>]

\* np.log(close / close.shift(1)).dropna(): the first row and every row with
\* a NaN price in it or before it drop out
RECURSIVE ReturnsFrom(_, _)
ReturnsFrom(close, i) ==
    IF i > Len(close) THEN <<>>
    ELSE IF i = 1 \/ IsNone(close[i][2]) \/ IsNone(close[i - 1][2])
    THEN ReturnsFrom(close, i + 1)
    ELSE << <<close[i][1], RInt(Val(close[i][2]) - Val(close[i - 1][2]))>> >>
         \o ReturnsFrom(close, i + 1)
LogReturns(close) == ReturnsFrom(close, 1)

Index(series) == {series[i][1] : i \in 1..Len(series)}

\* a selection that keeps the whole series
Select_All(series, common_dates) == series

\* series[common_dates]
Select(series, common_dates) ==
    LET Common(obs) == obs[1] \in common_dates
    IN  SelectSeq(series, Common)

\* a download hands over both frames; an empty one makes the method fail
\* after both attributes were assigned
download_data(downloads) ==
    /\ op' = "BetaCalculator.download_data"
    /\ \E d \in downloads :
          /\ beta' = [beta EXCEPT !.stock_data = Some(d[1]), !.index_data = Some(d[2])]
          /\ IF Len(d[1].rows) = 0 \/ Len(d[2].rows) = 0
             THEN ret' = RetFalse /\ out' = "Error during download"
             ELSE ret' = RetTrue /\ out' = "Data downloaded"
    /\ arg' = None
    /\ UNCHANGED <<debt, wacc, table_file, ratings_file, stdin>>

calculate_returns ==
    /\ op' = "BetaCalculator.calculate_returns"
    /\ IF IsNone(beta.stock_data) \/ IsNone(beta.index_data)
       THEN /\ ret' = RetFalse /\ out' = "Error: data not available"
            /\ UNCHANGED beta
       ELSE IF ~HasClosePrice(Val(beta.stock_data)) \/ ~HasClosePrice(Val(beta.index_data))
       THEN /\ ret' = RetFalse /\ out' = "Error calculating returns"
            /\ UNCHANGED beta
       ELSE LET stock_returns == LogReturns(get_close_price(Val(beta.stock_data)))
                index_returns == LogReturns(get_close_price(Val(beta.index_data)))
                common_dates == Index(stock_returns) \cap Index(index_returns)
            IN  /\ beta' = [beta EXCEPT
                               !.stock_returns = Some(Select(stock_returns, common_dates)),
                               !.index_returns = Some(Select(index_returns, common_dates))]
                /\ ret' = RetTrue /\ out' = "Returns calculated"
    /\ arg' = None
    /\ UNCHANGED <<debt, wacc, table_file, ratings_file, stdin>>

RECURSIVE SumSeq(_)
SumSeq(xs) == IF Len(xs) = 0 THEN RInt(0) ELSE RAdd(Head(xs), SumSeq(Tail(xs)))
Mean(xs) == RDiv(SumSeq(xs), RInt(Len(xs)))
\* an entry of np.cov(x, y, bias=1)
Cov(xs, ys) ==
    LET xmean == Mean(xs)
        ymean == Mean(ys)
    IN  RDiv(SumSeq([i \in 1..Len(xs) |->
                        RMul(RSub(xs[i], xmean), RSub(ys[i], ymean))]),
             RInt(Len(xs)))

\* `np.amax(x) == np.amin(x) and len(x) > 1`
IdenticalX(x) == Len(x) > 1 /\ \A i \in 1..Len(x) : x[i] = x[1]

\* the two-sided p-value of the slope, a function of the degrees of freedom
\* and of r that is kept by its two arguments
PValue(df, r_squared) == [df |-> df, r_squared |-> r_squared]

\* scipy.stats.linregress(x, y) for a non-empty x that passed the test for
\* identical values: slope, intercept, r ** 2, p-value, standard error
linregress(x, y) ==
    LET n == Len(x)
        ssxm == Cov(x, x)
        ssxym == Cov(x, y)
        ssym == Cov(y, y)
        r_squared == IF ssxm[1] = 0 \/ ssym[1] = 0 THEN RInt(0)
                     ELSE RDiv(RMul(ssxym, ssxym), RMul(ssxm, ssym))
        slope == FDiv(ssxym, ssxm)
        intercept == FSub(Mean(y), FMul(slope, Mean(x)))
    IN  [slope |-> slope, intercept |-> intercept, r_squared |-> r_squared,
         p_value |-> IF n = 2 THEN (IF y[1] = y[2] THEN RInt(1) ELSE RInt(0))
                     ELSE PValue(n - 2, r_squared),
         std_err |-> IF n = 2 THEN Surd(0, RInt(0))
                     ELSE FSqrt(FDiv(FDiv(RMul(RSub(RInt(1), r_squared), ssym), ssxm),
                                     RInt(n - 2)))]

\* Series.corr: Pearson's r, nan when a variance or the series is degenerate
Corr(x, y) ==
    LET ssxm == Cov(x, x)
        ssxym == Cov(x, y)
        ssym == Cov(y, y)
    IN  IF Len(x) < 2 \/ ssxm[1] = 0 \/ ssym[1] = 0 THEN SurdNaN
        ELSE Surd(Sign(ssxym[1]), RDiv(RMul(ssxym, ssxym), RMul(ssxm, ssym)))

\* `slope / std_err` on float64: a standard error of 0 gives +-inf, or nan for
\* a slope of 0, and no exception
TStatistic(slope, std_err) ==
    IF ~IsFinite(slope) \/ ~IsNumber(std_err) THEN SurdNaN
    ELSE IF std_err.sq[1] = 0
    THEN (IF slope[1] = 0 THEN SurdNaN ELSE SurdInf(Sign(slope[1])))
    ELSE Surd(Sign(slope[1]), RDiv(RMul(slope, slope), std_err.sq))

Values(series) == [i \in 1..Len(series) |-> series[i][2]]

\* linregress raises ValueError on empty inputs and on identical x values,
\* before any attribute is assigned
calculate_beta ==
    /\ op' = "BetaCalculator.calculate_beta"
    /\ IF IsNone(beta.stock_returns) \/ IsNone(beta.index_returns)
       THEN /\ ret' = RetFalse /\ out' = "Error: returns not available"
            /\ UNCHANGED beta
       ELSE LET x == Values(Val(beta.index_returns))
                y == Values(Val(beta.stock_returns))
            IN  IF Len(x) = 0
                THEN /\ ret' = Raise("ValueError") /\ out' = "Inputs must not be empty."
                     /\ UNCHANGED beta
                ELSE IF IdenticalX(x)
                THEN /\ ret' = Raise("ValueError")
                     /\ out' = "Cannot calculate a linear regression if all x values are identical"
                     /\ UNCHANGED beta
                ELSE LET fit == linregress(x, y)
                     IN  /\ beta' = [beta EXCEPT
                                        !.beta = Some(fit.slope),
                                        !.alpha = Some(fit.intercept),
                                        !.r_squared = Some(fit.r_squared),
                                        !.correlation = Some(Corr(y, x)),
                                        !.p_value = Some(fit.p_value),
                                        !.std_error = Some(fit.std_err),
                                        !.t_statistic = Some(TStatistic(fit.slope, fit.std_err))]
                         /\ ret' = RetTrue /\ out' = "BETA REGRESSION RESULTS"
    /\ arg' = None
    /\ UNCHANGED <<debt, wacc, table_file, ratings_file, stdin>>

(***************************************************************************)
(* Downloads: pairs of a stock frame and an index frame.                   *)
(***************************************************************************)
BothCols == {"Adj Close", "Close"}
\* a frame whose adjusted close and close are the same, from exponents
Prices(cols, t0, ks) ==
    Frame(cols, [i \in 1..Len(ks) |-> PriceRow(t0 + i - 1, ks[i], ks[i])])
P(k) == Some(k)

Downloads ==
    { \* the stock moves twice as far as the index: an exact fit on 3 returns
      << Prices(BothCols, 1, <<P(0), P(2), P(-2), P(4)>>),
         Prices(BothCols, 1, <<P(0), P(1), P(-1), P(2)>>) >>,
      \* a fit with residuals on 3 returns
      << Prices(BothCols, 1, <<P(0), P(1), P(0), P(4)>>),
         Prices(BothCols, 1, <<P(0), P(1), P(-1), P(2)>>) >>,
      \* 2 returns
      << Prices({"Close"}, 1, <<P(0), P(1), P(4)>>),
         Prices(BothCols, 1, <<P(0), P(1), P(3)>>) >>,
      \* 2 returns, the stock not moving
      << Prices(BothCols, 1, <<P(1), P(1), P(1)>>),
         Prices(BothCols, 1, <<P(0), P(1), P(3)>>) >>,
      \* 1 return
      << Prices(BothCols, 1, <<P(0), P(3)>>),
         Prices({"Adj Close"}, 1, <<P(0), P(1)>>) >>,
      \* 1 return left of 2 and 4: a NaN price and timestamps that differ
      << Prices(BothCols, 1, <<P(0), P(1), None, P(2), P(5)>>),
         Prices(BothCols, 2, <<P(0), P(1), P(3), P(4), P(6)>>) >>,
      \* no return in common
      << Prices(BothCols, 1, <<P(0), P(1)>>),
         Prices(BothCols, 2, <<P(0), P(1)>>) >>,
      \* the index rising by the same factor every time
      << Prices(BothCols, 1, <<P(0), P(2), P(3), P(7)>>),
         Prices(BothCols, 1, <<P(0), P(1), P(2), P(3)>>) >>,
      \* the adjusted close differing from the close
      << Frame(BothCols, << PriceRow(1, P(0), P(0)), PriceRow(2, P(1), P(5)),
                            PriceRow(3, P(3), None), PriceRow(4, P(4), P(1)) >>),
         Prices(BothCols, 1, <<P(0), P(1), P(-1), P(2)>>) >>,
      \* no price column, and nothing delivered
      << Prices({"Volume"}, 1, <<P(0), P(1), P(2)>>),
         Prices(BothCols, 1, <<P(0), P(1), P(3)>>) >>,
      << Frame(BothCols, <<>>), Prices(BothCols, 1, <<P(0), P(1), P(3)>>) >> }

BetaCalculator_download_data == download_data(Downloads)
BetaCalculator_calculate_returns == calculate_returns
BetaCalculator_calculate_beta == calculate_beta

InitBeta ==
    /\ debt = CostOfDebtCalculator_init
    /\ beta = BetaCalculator_init
    /\ table_file = MissingFile
    /\ ratings_file = MissingRatingsFile
    /\ op = "__init__"
    /\ ret = Ret("None")
    /\ out = ""
    /\ stdin = <<>>
    /\ wacc = WACCCalculator_init
    /\ arg = None

NextBeta ==
    \/ BetaCalculator_download_data
    \/ BetaCalculator_calculate_returns
    \/ BetaCalculator_calculate_beta

SpecBeta == InitBeta /\ [][NextBeta]_vars
(***************************************************************************)
(* C22: after calculate_returns has returned True, both return series      *)
(* carry the same timestamps, those at which the stock and the index each  *)
(* have a return of their own (a row other than the first whose price and  *)
(* whose previous price are numbers), and each observation kept is the     *)
(* asset's own return at that timestamp.                                   *)
(***************************************************************************)
ReturnsCalculated ==
    /\ op = "BetaCalculator.calculate_returns"
    /\ ret = RetTrue

OwnReturnDates(close) ==
    {close[i][1] : i \in {j \in 2..Len(close) :
                             ~IsNone(close[j][2]) /\ ~IsNone(close[j - 1][2])}}

C22_ReturnsAligned ==
    ReturnsCalculated =>
        LET stock_close == get_close_price(Val(beta.stock_data))
            index_close == get_close_price(Val(beta.index_data))
            shared == OwnReturnDates(stock_close) \cap OwnReturnDates(index_close)
            stock_returns == Val(beta.stock_returns)
            index_returns == Val(beta.index_returns)
        IN  /\ Index(stock_returns) = shared
            /\ Index(index_returns) = shared
            /\ Len(stock_returns) = Cardinality(shared)
            /\ Len(index_returns) = Cardinality(shared)
            /\ \A close \in {stock_close, index_close} :
                  Len(close) > 0 => close[1][1] \notin OwnReturnDates(close)
            /\ \A i \in 1..Len(stock_returns) :
                  \E j \in 2..Len(stock_close) :
                     /\ stock_close[j][1] = stock_returns[i][1]
                     /\ stock_returns[i][2] =
                           RInt(Val(stock_close[j][2]) - Val(stock_close[j - 1][2]))

\* the stock has returns at 2 and 5 (its price at 3 is NaN), the index at 3,
\* 4, 5 and 6: the one shared timestamp is 5
C22_Witness ==
    /\ ReturnsCalculated
    /\ OwnReturnDates(get_close_price(Val(beta.stock_data))) = {2, 5}
    /\ OwnReturnDates(get_close_price(Val(beta.index_data))) = {3, 4, 5, 6}
    /\ Val(beta.stock_returns) = << <<5, <<3, 1>>>> >>
    /\ Val(beta.index_returns) = << <<5, <<1, 1>>>> >>

(***************************************************************************)
(* C23: calculate_beta called on aligned series of fewer than 2            *)
(* observations fails, and leaves beta, alpha and the other regression     *)
(* fields as they were.                                                    *)
(***************************************************************************)
RegressionFields(b) ==
    <<b.beta, b.alpha, b.r_squared, b.correlation, b.p_value, b.std_error, b.t_statistic>>

C23_TooFewObservationsFail ==
    [][ (/\ op' = "BetaCalculator.calculate_beta"
         /\ ~IsNone(beta.stock_returns) /\ ~IsNone(beta.index_returns)
         /\ Len(Val(beta.index_returns)) < 2)
        => /\ ret'.k # "True"
           /\ RegressionFields(beta') = RegressionFields(beta)
      ]_vars

(***************************************************************************)
(* C24: calculate_beta called on index returns that are all the same       *)
(* fails and stores no beta.                                               *)
(***************************************************************************)
C24_ZeroVarianceFails ==
    [][ (/\ op' = "BetaCalculator.calculate_beta"
         /\ ~IsNone(beta.stock_returns) /\ ~IsNone(beta.index_returns)
         /\ Len(Val(beta.index_returns)) > 0
         /\ \A i \in 1..Len(Val(beta.index_returns)) :
               Val(beta.index_returns)[i][2] = Val(beta.index_returns)[1][2])
        => /\ ret'.k # "True"
           /\ beta'.beta = beta.beta
      ]_vars

(***************************************************************************)
(* C25: when calculate_beta has returned True with a standard error of 0,  *)
(* the t_statistic it stored is a number, not inf and not NaN.             *)
(***************************************************************************)
C25_TStatisticGuarded ==
    (/\ op = "BetaCalculator.calculate_beta"
     /\ ret = RetTrue
     /\ Val(beta.std_error) = Surd(0, RInt(0)))
    => IsNumber(Val(beta.t_statistic))

(***************************************************************************)
(* C27: when the rating bands stored are those of a load that succeeded    *)
(* and the company type and the coverage ratio are set, a call of          *)
(* assign_synthetic_rating returns True with a rating and a spread set.    *)
(***************************************************************************)
LoadSucceeded ==
    /\ ratings_file.exists
    /\ LET r == SR_Rows(EmptyRatings, ratings_file.rows, ratings_file.width, 4)
       IN  /\ ~r.raised
           /\ ~NoRatings(r.data)
           /\ debt.synthetic_ratings_data = Some(r.data)

C27_RatingAlwaysAssigned ==
    [][ (/\ op' = "CostOfDebtCalculator.assign_synthetic_rating"
         /\ LoadSucceeded
         /\ ~IsNone(debt.company_type)
         /\ ~IsNone(debt.interest_coverage_ratio))
        => /\ ret' = RetTrue
           /\ ~IsNone(debt'.rating)
           /\ ~IsNone(debt'.spread)
      ]_vars

(***************************************************************************)
(* C28: after a load that failed with every category table empty, a call   *)
(* of assign_synthetic_rating takes the path of ratings that were never    *)
(* loaded: it returns False and leaves rating and spread as they were.     *)
(***************************************************************************)
C28_EmptyLoadLeavesNoRatings ==
    [][ (/\ op' = "CostOfDebtCalculator.assign_synthetic_rating"
         /\ debt.synthetic_ratings_data = Some(EmptyRatings)
         /\ ~IsNone(debt.company_type)
         /\ ~IsNone(debt.interest_coverage_ratio))
        => /\ ret' = RetFalse
           /\ out' = "ratings data not loaded"
           /\ debt'.rating = debt.rating
           /\ debt'.spread = debt.spread
      ]_vars

(***************************************************************************)
(* C29: in every state, a stored cost_of_debt is                           *)
(* (risk_free_rate + spread) * (1 - tax_rate) of the stored inputs, and a  *)
(* stored wacc is the weighted cost of the stored cost_of_equity,          *)
(* cost_of_debt, equity_value and debt_value.                              *)
(***************************************************************************)
CostOfDebtCurrent ==
    ~IsNone(debt.cost_of_debt) =>
        /\ ~IsNone(debt.risk_free_rate) /\ ~IsNone(debt.spread) /\ ~IsNone(debt.tax_rate)
        /\ IsAfterTaxCost(Val(debt.cost_of_debt), Val(debt.risk_free_rate),
                          Val(debt.spread), Val(debt.tax_rate))

WaccCurrent ==
    ~IsNone(wacc.wacc) =>
        /\ ~IsNone(wacc.cost_of_equity) /\ ~IsNone(wacc.cost_of_debt)
        /\ ~IsNone(wacc.equity_value) /\ ~IsNone(wacc.debt_value)
        /\ LET ev == Val(wacc.equity_value)
               dv == Val(wacc.debt_value)
               tv == RAdd(ev, dv)
           IN  /\ tv # RInt(0)
               /\ RMul(Val(wacc.wacc), tv)
                    = RAdd(RMul(Val(wacc.cost_of_equity), ev),
                           RMul(Val(wacc.cost_of_debt), dv))

C29_StoredResultsCurrent == CostOfDebtCurrent /\ WaccCurrent

(***************************************************************************)
(* C30: on one bond table and one entered country name, the lookup of      *)
(* CostOfDebtCalculator.select_risk_free_rate and the lookup of            *)
(* BetaCalculator.get_bond_yield_from_excel give the same yield or both    *)
(* find nothing.                                                           *)
(***************************************************************************)
C30_LookupsAgree ==
    /\ DebtLookupRan =>
          LET other == Lookup(Val(debt.bond_yield_data), BC_country_alternatives, AskedKey)
          IN  IF LookupFound THEN other = debt.risk_free_rate ELSE IsNone(other)
    /\ BetaLookupRan =>
          LET other == Lookup(Val(beta.bond_yield_data), CD_country_alternatives, AskedKey)
          IN  IF LookupFound THEN other = Some(ret.v) ELSE IsNone(other)

(***************************************************************************)
(* The three scripts: the `__main__` blocks of CostofDebt.py and           *)
(* CostofEquity.py and `main` of WACC.py.  `op` and `ret` are the place    *)
(* the run has reached: the stage that ran last and what it returned.  A   *)
(* run ends at `exit(1)`, at `return`, at an exception (both scripts catch *)
(* Exception around the whole block) or after the final formula.           *)
(***************************************************************************)
\* WACCCalculator.select_valuation_method: blank, "market" and "m" select
\* market values, "book" and "b" book values, any other line is asked again
RECURSIVE ReadMethod(_)
ReadMethod(lines) ==
    IF Len(lines) = 0 THEN [ok |-> FALSE, v |-> "", rest |-> <<>>]
    ELSE LET method_input == Lower(Strip(Head(lines)))
         IN  IF Len(method_input) = 0 \/ method_input \in {<<"m","a","r","k","e","t">>, <<"m">>}
             THEN [ok |-> TRUE, v |-> "market", rest |-> Tail(lines)]
             ELSE IF method_input \in {<<"b","o","o","k">>, <<"b">>}
             THEN [ok |-> TRUE, v |-> "book", rest |-> Tail(lines)]
             ELSE ReadMethod(Tail(lines))

select_valuation_method(streams) ==
    /\ op' = "WACCCalculator.select_valuation_method"
    /\ \E lines \in streams :
          LET r == ReadMethod(lines)
          IN  /\ r.ok /\ Len(r.rest) = 0
              /\ stdin' = lines
              /\ wacc' = [wacc EXCEPT !.valuation_method = Some(r.v)]
              /\ ret' = RetTrue
              /\ out' = IF r.v = "market" THEN "Selected: Market Values"
                        ELSE "Selected: Book Values"
    /\ arg' = None
    /\ UNCHANGED <<debt, beta, table_file, ratings_file>>

\* the call returned: no exception left the method
Returned == ret.k \in {"True", "False", "None", "value"}

\* the run goes on after every returned result
Passed_Always == Returned

\* `if not calc.stage(): exit(1)` (in WACC.py `return`): the run goes on
\* after a truthy result
Passed == ret.k = "True" \/ (ret.k = "value" /\ ret.v[1] # 0)

\* `if calc.stage() is None: exit(1)`
NotNone == ret.k \in {"True", "False", "value"}

\* the stage that ran last returned
After(stage) == op = stage /\ Returned

\* what the scripts are run on
UsaSheet ==
    Sheet(<<"Country", "Yield", "ERP">>,
          << <<Txt(<<"U","S","A">>), Num(4, 1), Num(1, 20)>> >>)
\* <<bond and ERP workbook, ratings workbook>>
PipelineFiles ==
    { <<MissingFile, ExampleBook>>, <<TwoYieldSheet, HeaderOnlyBook>>,
      <<UsaSheet, FinancialBook>>, <<UsaSheet, ExampleBook>> }
PipelineInfos == RatingInfos \cup {EmptyInfo}
PipelineStreams == { <<<<"3">>, <<"2">>>>, <<<<"5">>, <<"0">>>> }
PipelineCountryStreams == { <<<<"u","s","a">>>>, <<<<"B","r","i","t","a","i","n">>, <<"n">>>> }
PipelineTaxStreams == { <<<<"2","5">>>>, <<<<"x">>, <<"0">>>> }
PipelineDownloads ==
    { << Prices(BothCols, 1, <<P(0), P(2), P(-2), P(4)>>),
         Prices(BothCols, 1, <<P(0), P(1), P(-1), P(2)>>) >>,
      << Prices(BothCols, 1, <<P(0), P(1)>>),
         Prices(BothCols, 2, <<P(0), P(1)>>) >>,
      << Prices({"Volume"}, 1, <<P(0), P(1), P(2)>>),
         Prices(BothCols, 1, <<P(0), P(1), P(3)>>) >>,
      << Frame(BothCols, <<>>), Prices(BothCols, 1, <<P(0), P(1), P(3)>>) >> }
PipelineIndexSymbols == {<<"^","G","S","P","C">>, <<"^","X","Y","Z">>}
PipelineErpStreams == { <<<<"6",".","5">>>>, <<<<"x">>, <<"0">>>> }
MethodStreams == { <<<<>>>>, <<<<"b">>>>, <<<<"x">>, <<" ","B","o","o","k"," ">>>>, <<<<"M">>>> }

WACCCalculator_select_valuation_method == select_valuation_method(MethodStreams)

\* CostofDebt.py, `__main__`
CostOfDebt_main ==
    \/ /\ op = "__init__"
       /\ CostOfDebtCalculator_load_synthetic_ratings_data
    \/ /\ After("CostOfDebtCalculator.load_synthetic_ratings_data") /\ Passed
       /\ CostOfDebtCalculator_load_bond_yield_data
    \/ /\ After("CostOfDebtCalculator.load_bond_yield_data") /\ Passed
       /\ get_company_info(PipelineInfos)
    \/ /\ After("CostOfDebtCalculator.get_company_info") /\ Passed
       /\ get_financial_inputs(PipelineStreams)
    \/ /\ After("CostOfDebtCalculator.get_financial_inputs")
       /\ assign_synthetic_rating
    \/ /\ After("CostOfDebtCalculator.assign_synthetic_rating")
       /\ select_risk_free_rate(PipelineCountryStreams)
    \/ /\ After("CostOfDebtCalculator.select_risk_free_rate") /\ Passed
       /\ get_tax_rate(PipelineTaxStreams)
    \/ /\ After("CostOfDebtCalculator.get_tax_rate")
       /\ calculate_cost_of_debt

\* CostofEquity.py, `__main__`; the regression plot changes nothing
CostOfEquity_main ==
    \/ /\ op = "__init__"
       /\ BetaCalculator_load_erp_data
    \/ /\ After("BetaCalculator.load_erp_data")
       /\ BetaCalculator_load_bond_yield_data
    \/ /\ After("BetaCalculator.load_bond_yield_data") /\ Passed
       /\ download_data(PipelineDownloads)
    \/ /\ After("BetaCalculator.download_data") /\ Passed
       /\ calculate_returns
    \/ /\ After("BetaCalculator.calculate_returns") /\ Passed
       /\ calculate_beta
    \/ /\ After("BetaCalculator.calculate_beta") /\ Passed
       /\ select_bond_country_from_excel(PipelineCountryStreams)
    \/ /\ After("BetaCalculator.select_bond_country_from_excel") /\ NotNone
       /\ get_equity_risk_premium(PipelineIndexSymbols)
    \* `if auto_erp:` and the automatic premium is not declined
    \/ /\ After("BetaCalculator.get_equity_risk_premium") /\ Passed
       /\ calculate_cost_of_equity({None})
    \* no automatic premium, or `use_auto == 'n'`
    \/ /\ After("BetaCalculator.get_equity_risk_premium")
       /\ get_manual_equity_risk_premium(PipelineErpStreams)
    \/ /\ After("BetaCalculator.get_manual_equity_risk_premium") /\ NotNone
       /\ calculate_cost_of_equity({None})

\* WACC.py, main()
WACC_main ==
    \/ /\ op = "__init__"
       /\ WACCCalculator_get_cost_inputs
    \/ /\ After("WACCCalculator.get_cost_inputs")
       /\ WACCCalculator_select_valuation_method
    \/ /\ After("WACCCalculator.select_valuation_method")
       /\ wacc.valuation_method = Some("market")
       /\ Pipeline_get_market_values
    \/ /\ After("WACCCalculator.select_valuation_method")
       /\ wacc.valuation_method # Some("market")
       /\ WACCCalculator_get_book_values
    \/ /\ After("WACCCalculator.get_market_values") /\ Passed
       /\ calculate_wacc
    \/ /\ After("WACCCalculator.get_book_values") /\ Passed
       /\ calculate_wacc

InitPipeline ==
    /\ debt = CostOfDebtCalculator_init
    /\ beta = BetaCalculator_init
    /\ \E files \in PipelineFiles : table_file = files[1] /\ ratings_file = files[2]
    /\ op = "__init__"
    /\ ret = Ret("None")
    /\ out = ""
    /\ stdin = <<>>
    /\ wacc = WACCCalculator_init
    /\ arg = None

NextPipeline ==
    \/ CostOfDebt_main
    \/ CostOfEquity_main
    \/ WACC_main

SpecPipeline == InitPipeline /\ [][NextPipeline]_vars

(***************************************************************************)
(* The stages of each script, in the order the calls stand in its source.  *)
(***************************************************************************)
CostOfDebtStages ==
    << "CostOfDebtCalculator.load_synthetic_ratings_data",
       "CostOfDebtCalculator.load_bond_yield_data",
       "CostOfDebtCalculator.get_company_info",
       "CostOfDebtCalculator.get_financial_inputs",
       "CostOfDebtCalculator.assign_synthetic_rating",
       "CostOfDebtCalculator.select_risk_free_rate",
       "CostOfDebtCalculator.get_tax_rate",
       "CostOfDebtCalculator.calculate_cost_of_debt" >>
CostOfEquityStages ==
    << "BetaCalculator.load_erp_data",
       "BetaCalculator.load_bond_yield_data",
       "BetaCalculator.download_data",
       "BetaCalculator.calculate_returns",
       "BetaCalculator.calculate_beta",
       "BetaCalculator.select_bond_country_from_excel",
       "BetaCalculator.get_equity_risk_premium",
       "BetaCalculator.get_manual_equity_risk_premium",
       "BetaCalculator.calculate_cost_of_equity" >>
WaccStages ==
    << "WACCCalculator.get_cost_inputs",
       "WACCCalculator.select_valuation_method",
       "WACCCalculator.get_market_values",
       "WACCCalculator.get_book_values",
       "WACCCalculator.calculate_wacc" >>
Scripts == {CostOfDebtStages, CostOfEquityStages, WaccStages}

InScript(stages, o) == o = "__init__" \/ \E i \in 1..Len(stages) : stages[i] = o
Place(stages, o) ==
    IF o = "__init__" THEN 0 ELSE CHOOSE i \in 1..Len(stages) : stages[i] = o

(***************************************************************************)
(* C26, as stated: every step of a run goes from a stage to the next stage *)
(* of its script, after a stage that succeeded, and the final formula is   *)
(* evaluated only with every reference table loaded.                       *)
(***************************************************************************)
LinearStep ==
    \E stages \in Scripts :
        /\ InScript(stages, op) /\ InScript(stages, op')
        /\ Place(stages, op') = Place(stages, op) + 1
EarlierSucceeded == op # "__init__" => ret.k \in {"True", "value"}
ReferencesLoaded ==
    /\ op = "CostOfDebtCalculator.calculate_cost_of_debt" =>
          /\ ~IsNone(debt.synthetic_ratings_data)
          /\ ~IsNone(debt.bond_yield_data)
    /\ op = "BetaCalculator.calculate_cost_of_equity" =>
          /\ ~IsNone(beta.erp_data)
          /\ ~IsNone(beta.bond_yield_data)

C26_FixedLinearPipeline ==
    /\ [][LinearStep /\ EarlierSucceeded]_vars
    /\ []ReferencesLoaded

(***************************************************************************)
(* C26, amended: every step of a run goes forward in its script, one stage *)
(* at a time but for two branches (WACC.py runs get_market_values or       *)
(* get_book_values, as the valuation method says; CostofEquity.py asks for *)
(* a manual premium only without an automatic one or when that is          *)
(* declined); no step follows an exception or the failure of a stage whose *)
(* result the script tests; the results of load_erp_data,                  *)
(* get_financial_inputs, assign_synthetic_rating, get_tax_rate,            *)
(* get_equity_risk_premium, get_cost_inputs and select_valuation_method    *)
(* are not tested.  The final formula is evaluated only with the bond      *)
(* table (and the rating bands) loaded, the company or the regression      *)
(* done and the risk-free rate selected; the ERP table may be missing.     *)
(***************************************************************************)
Skips ==
    { <<"BetaCalculator.get_equity_risk_premium", "BetaCalculator.calculate_cost_of_equity">>,
      <<"WACCCalculator.select_valuation_method", "WACCCalculator.get_book_values">>,
      <<"WACCCalculator.get_market_values", "WACCCalculator.calculate_wacc">> }
Untested ==
    { "__init__",
      "BetaCalculator.load_erp_data",
      "CostOfDebtCalculator.get_financial_inputs",
      "CostOfDebtCalculator.assign_synthetic_rating",
      "CostOfDebtCalculator.get_tax_rate",
      "BetaCalculator.get_equity_risk_premium",
      "WACCCalculator.get_cost_inputs",
      "WACCCalculator.select_valuation_method" }

OrderedStep ==
    \E stages \in Scripts :
        /\ InScript(stages, op) /\ InScript(stages, op')
        /\ \/ /\ Place(stages, op') = Place(stages, op) + 1
              /\ <<op, op'>> # <<"WACCCalculator.get_market_values",
                                 "WACCCalculator.get_book_values">>
           \/ <<op, op'>> \in Skips
BranchTaken ==
    /\ op' = "WACCCalculator.get_market_values" => wacc.valuation_method = Some("market")
    /\ op' = "WACCCalculator.get_book_values" => wacc.valuation_method = Some("book")
    /\ (/\ op = "BetaCalculator.get_equity_risk_premium"
        /\ op' = "BetaCalculator.calculate_cost_of_equity")
       => ret.k = "value" /\ beta.equity_risk_premium = Some(ret.v)
PrecedingOutcome ==
    IF op \in Untested THEN ret.k \in {"True", "False", "None", "value"}
    ELSE ret.k \in {"True", "value"}
FormulaHasInputs ==
    /\ op = "CostOfDebtCalculator.calculate_cost_of_debt" =>
          /\ ~IsNone(debt.synthetic_ratings_data)
          /\ ~NoRatings(Val(debt.synthetic_ratings_data))
          /\ ~IsNone(debt.bond_yield_data)
          /\ ~IsNone(debt.company_type)
          /\ ~IsNone(debt.interest_coverage_ratio)
          /\ ~IsNone(debt.rating) /\ ~IsNone(debt.spread)
          /\ ~IsNone(debt.risk_free_rate)
          /\ ~IsNone(debt.tax_rate)
          /\ ret.k = "value"
    /\ op = "BetaCalculator.calculate_cost_of_equity" =>
          /\ ~IsNone(beta.bond_yield_data)
          /\ ~IsNone(beta.stock_returns) /\ ~IsNone(beta.index_returns)
          /\ ~IsNone(beta.beta)
          /\ ~IsNone(beta.current_risk_free_rate)
          /\ ~IsNone(beta.equity_risk_premium)
          /\ ret.k = "value"
    /\ op = "WACCCalculator.calculate_wacc" =>
          /\ ~IsNone(wacc.cost_of_equity) /\ ~IsNone(wacc.cost_of_debt)
          /\ ~IsNone(wacc.equity_value) /\ ~IsNone(wacc.debt_value)
          /\ IF wacc.valuation_method = Some("market")
             THEN /\ wacc.equity_value = wacc.market_value_equity
                  /\ wacc.debt_value = wacc.market_value_debt
                  /\ IsNone(wacc.book_value_equity)
             ELSE /\ wacc.valuation_method = Some("book")
                  /\ wacc.equity_value = wacc.book_value_equity
                  /\ wacc.debt_value = wacc.book_value_debt
                  /\ IsNone(wacc.market_value_equity)

C26_StagedPipeline ==
    /\ [][OrderedStep /\ BranchTaken /\ PrecedingOutcome]_vars
    /\ []FormulaHasInputs

\* the ERP load failed, a premium was typed in and the CAPM formula ran
C26_Witness ==
    /\ op = "BetaCalculator.calculate_cost_of_equity"
    /\ IsNone(beta.erp_data)
    /\ ~IsNone(beta.equity_risk_premium)
    /\ ret.k = "value"

====
